---- MODULE Spec2Model ----
(***************************************************************************)
(* Verification model of the rescue-vessel coverage pipeline:              *)
(*   tidal_gen/generate_intervals.py  (generate_intervals,                 *)
(*                                     consolidate_intervals)              *)
(*   tidal_gen/calculate_comp_val.py  (calculate_obj_value)                *)
(*   Solvers/gurobi_*.py              (create_model)                       *)
(*   Solvers/run_gurobi.py            (optimize)                           *)
(*   data/DataHouse.py, test.py       (scenario set-up, extraction)        *)
(* Python floats are modelled as exact rationals <<n, d>> with d > 0 in    *)
(* lowest terms; float('inf') is <<1, 0>>.                                 *)
(***************************************************************************)
EXTENDS Integers, Sequences, FiniteSets, TLC

VARIABLES
    pc,                  \* position of the running function
    shares,              \* joint share distribution: set of [key, value]
    assignment,          \* dict Station -> VesselType handed to the evaluator
    allowed_vessels,     \* Incident_Type.allowed_vessels, per incident
    probability_by_zone, \* Incident_Type.probability_by_zone, per incident
    reach,               \* VesselType.reach, per vessel
    todo,                \* shares the evaluator's outer loop has not visited yet
    val,                 \* calculate_obj_value: val
    unfullfilled,        \* calculate_obj_value: unfullfilled
    unfilled_number,     \* calculate_obj_value: unfilled_number
    unfullfilled_weight, \* calculate_obj_value: unfullfilled_weight
    used,                \* history: per visited (share, zone, incident) the
                         \* responders that reached line 51 and the curr_val
    ret,                 \* value returned by the function, None before
    error,               \* the exception that ended the run, None if none
    lines,               \* generate_intervals: lines
    current_level,       \* Level.current_level, per gauge
    last_row,            \* history: the last row read from all gauge files
    timestamps,          \* history: number of rows read from all gauge files
    share_counts,        \* generate_intervals: shares before line 136 (counts)
    share_list,          \* generate_intervals: shares after line 136 (fractions)
    written,             \* artifacts written under data/merged/<water>
    amount,              \* VesselType.amount, per vessel
    consolidated,        \* consolidate_intervals: consolidated
    minimum_water_level, \* Station.minimum_water_level, per station
    vessels,             \* consolidate_intervals: the name `vessels` at line 213
    solver,              \* SolveType handed to run_gurobi.optimize
    allowed_ports,       \* VesselType.allowed_ports, per vessel
    station_allowed_vessels, \* Station.allowed_vessels, per station
    xvars,               \* create_model: keys of the tupledict x
    yvars,               \* create_model: tupledict y, key -> objective coefficient
    constrs,             \* the constraints added to the gurobi model
    status,              \* model.status after optimize()
    solution,            \* the variables with value 1 in the solver's solution
    zone_reachable_from_by, \* Zone.reachable_from_by, per zone
    reach_todo,          \* reachable_for_zones: iterations of the loops still to run
    final_amount,        \* cluster_zones: the number of zones to cluster to
    labels,              \* kmeans.labels_, per zone of self.zones
    origin_zones,        \* cluster_zones: the zones absorbed, per new zone
    new_incident_prop_by_zone, \* cluster_zones: per incident, per new zone
    zones_clustered,     \* DataHouse.zones_clustered
    kind,                \* the class whose constructor is called
    counter,             \* the class attribute _counter: the value next() returns
    entities,            \* the objects of the class, in the order of construction
    obj,                 \* the object handed to json.dumps
    encoded,             \* what ExtendedJSONEncoder made of it
    decoded,             \* what json.loads with json_decoder_hook made of that
    reencoded,           \* the encoding of the decoded object
    disk,                \* data/merged/<water> when get_connected_data is called
    calls,               \* the calls of get_connected_data so far
    extra,               \* a threshold inserted into the waterlevels of Better-tidal
    coarse_objective,    \* the optimal objective with the thresholds of the code
    refined_objective,   \* the optimal objective with the inserted threshold
    vessel_types,        \* DataHouse.vessel_types: a list or a frozenset
    compare_lookups,     \* what probability_by_zone.get found for the zones passed
    fixed_objective      \* the optimum of the best-tidal model with x fixed

evalVars == <<shares, assignment, allowed_vessels, probability_by_zone, reach,
              todo, val, unfullfilled, unfilled_number, unfullfilled_weight,
              used>>

tidalVars == <<lines, current_level, last_row, timestamps, share_counts,
               share_list, written, amount, consolidated, minimum_water_level,
               vessels>>

modelVars == <<solver, allowed_ports, station_allowed_vessels, xvars, yvars, constrs,
               status, solution>>

reachVars == <<zone_reachable_from_by, reach_todo>>

clusterVars == <<final_amount, labels, origin_zones, new_incident_prop_by_zone,
                 zones_clustered>>

classVars == <<kind, counter, entities>>

jsonVars == <<obj, encoded, decoded, reencoded>>

cacheVars == <<disk, calls>>

refineVars == <<extra, coarse_objective, refined_objective>>

houseVars == <<vessel_types, compare_lookups, fixed_objective>>

pipeVars == <<cacheVars, refineVars, houseVars>>

dataVars == <<reachVars, clusterVars, classVars, jsonVars, pipeVars>>

vars == <<pc, ret, error, evalVars, tidalVars, modelVars, dataVars>>

\* Python's None, and a value that is present
None == <<>>
Some(v) == <<v>>

(***************************************************************************)
(* Bounds of the model.                                                    *)
(***************************************************************************)
MaxLines == 2       \* timestamps (rows of the gauge files) of a time series
MaxAmount == 2      \* fleet size of a vessel type

(***************************************************************************)
(* The scenario: identifiers of the entities (Classes.py).                 *)
(***************************************************************************)
Stations == {1, 2}
Vessels == {1, 2}
Zones == {1, 2}
Incidents == {1}

\* VesselType.speed in knots, VesselType.draught in metres
speed == [v \in Vessels |-> IF v = 1 THEN 20 ELSE 10]
draught == [v \in Vessels |-> v]
\* Incident_Type.weight
weight == [i \in Incidents |-> <<1, 2>>]
ReachValues == {20, 60}
ProbValues == {<<0, 1>>, <<1, 2>>}

\* GpsPoint.distance_to between a station and a zone, in nautical miles
distance_to(s, z) == IF s = z THEN 10 ELSE 30

(***************************************************************************)
(* Float arithmetic as exact rationals.                                    *)
(***************************************************************************)
RECURSIVE Gcd(_, _)
Gcd(a, b) == IF b = 0 THEN a ELSE Gcd(b, a % b)

Abs(x) == IF x < 0 THEN -x ELSE x

Rat(n, d) == LET g == Gcd(Abs(n), d) IN <<n \div g, d \div g>>

Inf == <<1, 0>>
Zero == <<0, 1>>
One == <<1, 1>>

RatAdd(a, b) == Rat(a[1] * b[2] + b[1] * a[2], a[2] * b[2])
RatSub(a, b) == Rat(a[1] * b[2] - b[1] * a[2], a[2] * b[2])
RatMul(a, b) == Rat(a[1] * b[1], a[2] * b[2])
RatLess(a, b) == a[1] * b[2] < b[1] * a[2]
RatLeq(a, b) == a[1] * b[2] <= b[1] * a[2]
\* Python's min(a, b) and max(a, b): the second wins only when strictly better
RatMin(a, b) == IF RatLess(b, a) THEN b ELSE a
RatMax(a, b) == IF RatLess(a, b) THEN b ELSE a

RECURSIVE RatSum(_, _)
\* sum of f[x] over the set S
RatSum(f, S) ==
    IF S = {} THEN Zero
    ELSE LET x == CHOOSE y \in S : TRUE
         IN RatAdd(f[x], RatSum(f, S \ {x}))

(***************************************************************************)
(* Joint combinations: frozenset of (station, frozenset of vessels).       *)
(* A vessel fits iff its draught is below the clearance, so the vessels    *)
(* paired with a station are the ones up to some draught, and never none.  *)
(***************************************************************************)
FittingSets == {{v \in Vessels : draught[v] <= c} : c \in {draught[v] : v \in Vessels}}

JointKeys ==
    {k \in SUBSET (Stations \X FittingSets) :
        k # {} /\ \A p, q \in k : p[1] = q[1] => p = q}

\* Zone.reachable_from_by as DataHouse.reachable_for_zones fills it
reachable_from_by(z, rch) ==
    {p \in Stations \X Vessels : distance_to(p[1], z) * 2 <= rch[p[2]]}

(***************************************************************************)
(* Share distributions as generate_intervals produces them: every observed *)
(* joint combination with its count divided by the number of timestamps    *)
(* (generate_intervals.py lines 133-136).                                  *)
(***************************************************************************)
RECURSIVE IntSum(_, _)
IntSum(f, S) ==
    IF S = {} THEN 0
    ELSE LET x == CHOOSE y \in S : TRUE
         IN f[x] + IntSum(f, S \ {x})

SharesOf(counts) ==
    LET total == IntSum(counts, DOMAIN counts)
    IN {[key |-> k, value |-> Rat(counts[k], total)] : k \in DOMAIN counts}

CountMaps ==
    {c \in UNION {[K -> 1..MaxLines] : K \in SUBSET JointKeys} :
        IntSum(c, DOMAIN c) <= MaxLines}

ShareInputs == {SharesOf(c) : c \in CountMaps}

Assignments == UNION {[D -> Vessels] : D \in SUBSET Stations}

(***************************************************************************)
(* calculate_obj_value (calculate_comp_val.py lines 27-71)                 *)
(***************************************************************************)
\* incident.probability_by_zone.get(zone, 0)
ProbGet(i, z) ==
    IF z \in DOMAIN probability_by_zone[i] THEN probability_by_zone[i][z] ELSE Zero

\* assignment[cur_station]: raises KeyError for a station without a vessel
AssignmentIndex(a, s) ==
    [exc |-> s \notin DOMAIN a, val |-> IF s \in DOMAIN a THEN Some(a[s]) ELSE None]

\* assignment.get(cur_station, None)
AssignmentGet(a, s) ==
    [exc |-> FALSE, val |-> IF s \in DOMAIN a THEN Some(a[s]) ELSE None]

\* the (cur_station, cur_vessel) pairs of a share that pass the three
\* `continue` tests of lines 45-50 and reach line 51
Responders(share_obj, zone, incident) ==
    {<<p[1], AssignmentGet(assignment, p[1]).val[1]>> : p \in
        {q \in share_obj :
            LET cur_vessel == AssignmentGet(assignment, q[1]).val
            IN /\ cur_vessel # None
               /\ cur_vessel[1] \in allowed_vessels[incident]
               /\ <<q[1], cur_vessel[1]>> \in reachable_from_by(zone, reach)}}

\* dist / cur_vessel.speed
TravelTime(s, v, z) == Rat(distance_to(s, z), speed[v])

RECURSIVE MinOver(_, _)
\* curr_val = min(curr_val, t) folded over the times T, starting from acc
MinOver(T, acc) ==
    IF T = {} THEN acc
    ELSE LET t == CHOOSE y \in T : TRUE
         IN MinOver(T \ {t}, RatMin(acc, t))

CurrVal(share_obj, zone, incident) ==
    MinOver({TravelTime(r[1], r[2], zone) : r \in Responders(share_obj, zone, incident)},
            Inf)

\* the (zone, incident) pairs line 40 does not skip
PositiveTriples == {t \in Zones \X Incidents : ~RatLeq(ProbGet(t[2], t[1]), Zero)}

\* cluster_zones does not run in this specification
ClusterIdle ==
    /\ final_amount = None
    /\ labels = None
    /\ origin_zones = None
    /\ new_incident_prop_by_zone = None
    /\ zones_clustered = None

\* no constructor of Classes.py is followed in this specification
ClassIdle ==
    /\ kind = None
    /\ counter = None
    /\ entities = None

\* nothing is written to or read from JSON in this specification
JsonIdle ==
    /\ obj = None
    /\ encoded = None
    /\ decoded = None
    /\ reencoded = None

\* get_connected_data is not followed in this specification
CacheIdle ==
    /\ disk = None
    /\ calls = None

\* no threshold is inserted in this specification
RefineIdle ==
    /\ extra = None
    /\ coarse_objective = None
    /\ refined_objective = None

\* DataHouse.fill_in is not followed in this specification
HouseIdle == vessel_types = None /\ compare_lookups = None /\ fixed_objective = None

PipeIdle == CacheIdle /\ RefineIdle /\ HouseIdle

\* the scenario assembly of DataHouse does not run in this specification
DataIdle ==
    /\ PipeIdle
    /\ zone_reachable_from_by = None
    /\ reach_todo = None
    /\ ClusterIdle
    /\ ClassIdle
    /\ JsonIdle

\* neither the evaluator nor the interval generator runs in this
\* specification: only the scenario's reach, probabilities and vessel list
\* are in use
CalculationIdle ==
    /\ shares = None
    /\ assignment = None
    /\ allowed_vessels = None
    /\ todo = None
    /\ val = None
    /\ unfullfilled = None
    /\ unfilled_number = None
    /\ unfullfilled_weight = None
    /\ used = None
    /\ lines = None
    /\ current_level = None
    /\ last_row = None
    /\ timestamps = None
    /\ share_counts = None
    /\ share_list = None
    /\ written = None
    /\ amount = None
    /\ consolidated = None
    /\ minimum_water_level = None

\* the solver does not run in this specification
ModelIdle ==
    /\ solver = None
    /\ allowed_ports = None
    /\ station_allowed_vessels = None
    /\ xvars = None
    /\ yvars = None
    /\ constrs = None
    /\ status = None
    /\ solution = None

\* the tidal functions do not run in this specification
TidalIdle ==
    /\ lines = None
    /\ current_level = None
    /\ last_row = None
    /\ timestamps = None
    /\ share_counts = None
    /\ share_list = None
    /\ written = None
    /\ amount = None
    /\ consolidated = None
    /\ minimum_water_level = None
    /\ vessels = None

InitEval ==
    /\ pc = "loop"
    /\ error = None
    /\ TidalIdle
    /\ ModelIdle
    /\ DataIdle
    /\ shares \in ShareInputs
    /\ assignment \in Assignments
    /\ allowed_vessels \in [Incidents -> SUBSET Vessels \ {{}}]
    /\ probability_by_zone \in [Incidents -> [Zones -> ProbValues]]
    /\ reach \in [Vessels -> ReachValues]
    /\ todo = shares
    /\ val = Zero
    /\ unfullfilled = Zero
    /\ unfilled_number = 0
    /\ unfullfilled_weight = Zero
    /\ used = {}
    /\ ret = None

\* one iteration of the loop over shares.items() (lines 37-62)
EvalShare ==
    /\ pc = "loop"
    /\ \E sh \in todo :
        LET pos == PositiveTriples
            raised == pos # {} /\ \E p \in sh.key : AssignmentGet(assignment, p[1]).exc
            cv == [t \in pos |-> CurrVal(sh.key, t[1], t[2])]
            unf == {t \in pos : cv[t] = Inf}
            ful == pos \ unf
            contrib == [t \in ful |->
                RatMul(RatMul(RatMul(cv[t], sh.value), weight[t[2]]), ProbGet(t[2], t[1]))]
            wgt == [t \in unf |-> RatMul(weight[t[2]], ProbGet(t[2], t[1]))]
        IN IF raised
           THEN /\ pc' = "raised"
                /\ error' = Some("KeyError")
                /\ UNCHANGED <<evalVars, ret, tidalVars, modelVars, dataVars>>
           ELSE /\ val' = RatAdd(val, RatSum(contrib, ful))
                /\ unfullfilled' = RatAdd(unfullfilled, RatMul(Rat(Cardinality(unf), 1), sh.value))
                /\ unfilled_number' = unfilled_number + Cardinality(unf)
                /\ unfullfilled_weight' = RatAdd(unfullfilled_weight, RatSum(wgt, unf))
                /\ used' = used \cup
                     {[key |-> sh.key, zone |-> t[1], incident |-> t[2],
                       responders |-> Responders(sh.key, t[1], t[2]),
                       curr_val |-> cv[t]] : t \in pos}
                /\ todo' = todo \ {sh}
                /\ pc' = "loop"
                /\ UNCHANGED <<shares, assignment, allowed_vessels, probability_by_zone,
                               reach, ret, error, tidalVars, modelVars, dataVars>>

\* lines 66-71
EvalReturn ==
    /\ pc = "loop"
    /\ todo = {}
    /\ \E fullinfo \in BOOLEAN :
        ret' = IF fullinfo
               THEN Some(<<val, unfullfilled, unfilled_number, unfullfilled_weight>>)
               ELSE IF RatLess(Zero, unfullfilled) THEN Some(<<Inf>>) ELSE Some(<<val>>)
    /\ pc' = "done"
    /\ UNCHANGED <<evalVars, error, tidalVars, modelVars, dataVars>>

NextEval == EvalShare \/ EvalReturn

SpecEval == InitEval /\ [][NextEval]_vars

(***************************************************************************)
(* Claims about calculate_obj_value                                        *)
(***************************************************************************)
\* the responders the evaluator is specified to use: the station has an
\* assigned vessel that is in the vessel set paired with the station in the
\* share, is permitted for the incident, and reaches the zone with the station
Eligible(share_obj, zone, incident) ==
    {r \in Stations \X Vessels :
        /\ r[1] \in DOMAIN assignment
        /\ assignment[r[1]] = r[2]
        /\ \E p \in share_obj : p[1] = r[1] /\ r[2] \in p[2]
        /\ r[2] \in allowed_vessels[incident]
        /\ r \in reachable_from_by(zone, reach)}

EligibleTime(share_obj, zone, incident) ==
    MinOver({TravelTime(r[1], r[2], zone) : r \in Eligible(share_obj, zone, incident)}, Inf)

\* C1: for every positive-probability (share, zone, incident) triple the
\* stations counted as responders are exactly those whose assigned vessel is
\* in the share's vessel set for the station, permitted for the incident and
\* able to reach the zone, and the time used is the minimum over them.
C1_RespondersAreEligible ==
    \A u \in used :
        /\ u.responders = Eligible(u.key, u.zone, u.incident)
        /\ u.curr_val = EligibleTime(u.key, u.zone, u.incident)

\* the (share, zone, incident) triples of positive probability
AllTriples == {<<sh, t[1], t[2]>> : sh \in shares, t \in PositiveTriples}

UnfulfilledTriples == {t \in AllTriples : Eligible(t[1].key, t[2], t[3]) = {}}

ExpectedObjective ==
    LET ful == AllTriples \ UnfulfilledTriples
    IN RatSum([t \in ful |->
                 RatMul(RatMul(RatMul(EligibleTime(t[1].key, t[2], t[3]), t[1].value),
                               weight[t[3]]), ProbGet(t[3], t[2]))], ful)

ExpectedBreakdown ==
    <<ExpectedObjective,
      RatSum([t \in UnfulfilledTriples |-> t[1].value], UnfulfilledTriples),
      Cardinality(UnfulfilledTriples),
      RatSum([t \in UnfulfilledTriples |-> RatMul(weight[t[3]], ProbGet(t[3], t[2]))],
             UnfulfilledTriples)>>

\* C2: without the breakdown flag the result is +infinity when some
\* positive-probability triple has no eligible responder and the accumulated
\* objective otherwise; with the flag it is the 4-tuple (objective without the
\* unfulfilled triples, their summed share fraction, their number, their summed
\* weight x probability).
C2_ReturnValue ==
    pc = "done" =>
        IF Len(ret[1]) = 1
        THEN ret[1][1] = (IF UnfulfilledTriples # {} THEN Inf ELSE ExpectedObjective)
        ELSE ret[1] = ExpectedBreakdown

\* C3: the evaluator never raises; a station without an assigned vessel is
\* never a responder; unfulfilled triples show only in the returned value.
C3_NoException ==
    /\ pc # "raised"
    /\ \A u \in used : \A r \in u.responders : r[1] \in DOMAIN assignment
    /\ pc = "done" =>
        /\ ret # None
        /\ LET unf == {u \in used : u.curr_val = Inf}
           IN unf # {} =>
                \/ ret[1] = <<Inf>>
                \/ Len(ret[1]) = 4 /\ ret[1][3] = Cardinality(unf)

\* the empty assignment was evaluated on a share with a positive-probability
\* triple, and the call returned
C3_Witness ==
    /\ pc = "done"
    /\ DOMAIN assignment = {}
    /\ unfilled_number > 0

\* a partial assignment: one station responds, the other has no vessel
C3_WitnessPartial ==
    /\ pc = "done"
    /\ Cardinality(DOMAIN assignment) = 1
    /\ \E u \in used : u.responders # {} /\ Cardinality(u.key) = 2

(***************************************************************************)
(* generate_intervals (generate_intervals.py lines 49-150)                 *)
(***************************************************************************)
\* the gauges (Level objects) and the readings a row can hold, in cm
Levels == {1, 2, 3}
ReadingValues == {150, 300, 450}
ReadingOpt == {None} \cup {Some(r) : r \in ReadingValues}

\* Station.depth in metres
depth == [s \in Stations |-> s]

\* station.position.distance_to(level.position)
level_distance(s, l) == IF s = 1 THEN l ELSE 4 - l

RECURSIVE SortedSeq(_)
\* sorted(S) for a set of identifiers
SortedSeq(S) ==
    IF S = {} THEN <<>>
    ELSE LET m == CHOOSE x \in S : \A y \in S : x <= y
         IN <<m>> \o SortedSeq(S \ {m})

RECURSIVE SortByDistance(_, _)
\* levels_list.sort(key=distance to the station), lines 77-80
SortByDistance(s, L) ==
    IF L = {} THEN <<>>
    ELSE LET m == CHOOSE x \in L :
                    \A y \in L : \/ level_distance(s, x) < level_distance(s, y)
                                 \/ level_distance(s, x) = level_distance(s, y) /\ x <= y
         IN <<m>> \o SortByDistance(s, L \ {m})

RECURSIVE TakeUsed(_, _, _)
\* lines 112-117: the first three levels of the station's list with a reading
TakeUsed(lv, row, acc) ==
    IF lv = <<>> \/ Cardinality(acc) = 3 THEN acc
    ELSE IF row[Head(lv)] # None
         THEN TakeUsed(Tail(lv), row, acc \cup {Head(lv)})
         ELSE TakeUsed(Tail(lv), row, acc)

UsedLevels(s, row) == TakeUsed(SortByDistance(s, Levels), row, {})

\* lines 120-123: total_distance and the divisor of the weighted average
TotalDistance(s, U) == IntSum([l \in U |-> level_distance(s, l)], U)
Divisor(s, U) == IntSum([l \in U |-> TotalDistance(s, U) - level_distance(s, l)], U)

\* line 123 divides by zero
DivisionByZero(s, row) ==
    LET U == UsedLevels(s, row) IN U # {} /\ Divisor(s, U) = 0

\* lines 122-124, for a station with used levels and a divisor that is not 0
WaterLevel(s, row) ==
    LET U == UsedLevels(s, row)
        D == TotalDistance(s, U)
    IN RatSub(Rat(IntSum([l \in U |-> row[l][1] * (D - level_distance(s, l))], U),
                  Divisor(s, U)),
              Rat(depth[s] * 100, 1))

\* a comparison that lets a vessel in at a water level equal to its draught
FittingVesselsOrEqual(s, row) ==
    {v \in Vessels : RatLeq(Rat(draught[v] * 100, 1), WaterLevel(s, row))}

\* lines 125-126: the vessels whose draught is below the water level
FittingVessels(s, row) ==
    {v \in Vessels : RatLess(Rat(draught[v] * 100, 1), WaterLevel(s, row))}

\* lines 110-128 and 132: the combination of a row, sorted by station
OpenedStationVessels(row) ==
    LET open == {s \in Stations : UsedLevels(s, row) # {} /\ FittingVessels(s, row) # {}}
        st == SortedSeq(open)
    IN [i \in 1..Len(st) |-> <<st[i], SortedSeq(FittingVessels(st[i], row))>>]

\* what lines 129-131 do with a row's combination: a bug that follows the
\* log message and skips the row
OpenedCheckSkip(opened) == IF opened = <<>> THEN "skip" ELSE "count"

\* lines 129-131
OpenedCheck(opened) == IF opened = <<>> THEN "raise" ELSE "count"

\* line 133: shares[key] = shares.get(key, 0) + 1, keeping insertion order
CountShare(counts, key) ==
    IF \E i \in DOMAIN counts : counts[i].key = key
    THEN [i \in DOMAIN counts |->
            IF counts[i].key = key
            THEN [key |-> key, count |-> counts[i].count + 1]
            ELSE counts[i]]
    ELSE Append(counts, [key |-> key, count |-> 1])

\* lines 135-136
Fractions(counts) ==
    LET total == IntSum([i \in DOMAIN counts |-> counts[i].count], DOMAIN counts)
    IN [i \in DOMAIN counts |->
          [key |-> counts[i].key, value |-> Rat(counts[i].count, total)]]

Artifacts == {"shares.json", "stations.json", "vessels.json"}

\* the evaluator does not run in this specification
EvalIdle ==
    /\ shares = None
    /\ assignment = None
    /\ allowed_vessels = None
    /\ probability_by_zone = None
    /\ reach = None
    /\ todo = None
    /\ val = None
    /\ unfullfilled = None
    /\ unfilled_number = None
    /\ unfullfilled_weight = None
    /\ used = None

InitTidal ==
    /\ pc = "scan"
    /\ ret = None
    /\ error = None
    /\ EvalIdle
    /\ ModelIdle
    /\ DataIdle
    /\ lines = 0
    /\ current_level = [l \in Levels |-> None]
    /\ last_row = None
    /\ timestamps = 0
    /\ share_counts = <<>>
    /\ share_list = None
    /\ written = {}
    /\ amount \in [Vessels -> 1..MaxAmount]
    /\ consolidated = None
    /\ minimum_water_level = [s \in Stations |-> Zero]
    /\ vessels = Vessels

\* lines 94-133: an iteration of the while loop in which every file has a row
GenRow ==
    /\ pc = "scan"
    /\ lines < MaxLines
    /\ \E row \in [Levels -> ReadingOpt] :
        LET opened == OpenedStationVessels(row)
        IN /\ lines' = lines + 1
           /\ current_level' = row
           /\ last_row' = Some(row)
           /\ timestamps' = timestamps + 1
           /\ IF \E s \in Stations : DivisionByZero(s, row)
              THEN /\ pc' = "raised"
                   /\ error' = Some("ZeroDivisionError")
                   /\ UNCHANGED share_counts
              ELSE IF OpenedCheck(opened) = "raise"
              THEN /\ pc' = "raised"
                   /\ error' = Some("No stations opened")
                   /\ UNCHANGED share_counts
              ELSE IF OpenedCheck(opened) = "skip"
              THEN UNCHANGED <<pc, error, share_counts>>
              ELSE /\ share_counts' = CountShare(share_counts, opened)
                   /\ UNCHANGED <<pc, error>>
    /\ UNCHANGED <<ret, evalVars, share_list, written, amount, consolidated,
                   minimum_water_level, vessels, modelVars, dataVars>>

\* lines 94-103: an iteration in which the file of gauge k has no row left;
\* the gauges before k have already taken their reading
GenEOF ==
    /\ pc = "scan"
    /\ \E k \in Levels : \E row \in [{l \in Levels : l < k} -> ReadingOpt] :
        current_level' = [l \in Levels |-> IF l < k THEN row[l] ELSE current_level[l]]
    /\ lines' = lines + 1
    /\ pc' = "post"
    /\ UNCHANGED <<ret, error, evalVars, last_row, timestamps, share_counts, share_list,
                   written, amount, consolidated, minimum_water_level, vessels,
                   modelVars, dataVars>>

\* lines 134-150
GenFinish ==
    /\ pc = "post"
    /\ share_list' = Fractions(share_counts)
    /\ written' = Artifacts
    /\ ret' = Some(Fractions(share_counts))
    /\ pc' = "generated"
    /\ UNCHANGED <<error, evalVars, lines, current_level, last_row, timestamps,
                   share_counts, amount, consolidated, minimum_water_level, vessels,
                   modelVars, dataVars>>

(***************************************************************************)
(* get_connected_data and consolidate_intervals (lines 153-229)            *)
(***************************************************************************)
\* replace_ids_with_objects, lines 177-186
replace_ids_with_objects(tup) ==
    {<<tup[i][1], {tup[i][2][j] : j \in DOMAIN tup[i][2]}>> : i \in DOMAIN tup}

\* line 188: the shares keyed by frozensets of (station, frozenset of vessels)
ConnectedShares(sl) ==
    {[key |-> replace_ids_with_objects(sl[i].key), value |-> sl[i].value] : i \in DOMAIN sl}

\* line 210 summed over the shares: consolidated[(station, vessel)]
ConsolidatedSum(sh, s, v) ==
    LET idx == {r \in sh : \E p \in r.key : p[1] = s /\ v \in p[2]}
    IN RatSum([r \in idx |-> r.value], idx)

\* line 211 summed over the shares: consolidated_by_station[station]
StationSum(sh, s) ==
    LET idx == {t \in sh \X Vessels : \E p \in t[1].key : p[1] = s /\ t[2] \in p[2]}
    IN RatSum([t \in idx |-> RatMul(t[1].value, Rat(amount[t[2]], 1))], idx)

\* the pairs that got an entry in lines 207-211
OpenPairs(sh) ==
    {p \in Stations \X Vessels :
        \E r \in sh : \E q \in r.key : q[1] = p[1] /\ p[2] \in q[2]}

\* what the name `vessels` can hold at line 213: the loop variable of line
\* 208 after its last iteration (the vessel set of some pair of the last
\* share, frozenset order being arbitrary), or the loaded list if no share
LoopVessels(sl) ==
    IF sl = <<>> THEN {Vessels}
    ELSE {p[2] : p \in replace_ids_with_objects(sl[Len(sl)].key)}

\* line 214 without the clamp
StationThresholdUnclamped(value, number_of_vessels) ==
    RatSub(One, Rat(value[1], value[2] * number_of_vessels))

\* line 214: max(min(1 - value / number_of_vessels, 1), 0)
StationThreshold(value, number_of_vessels) ==
    RatMax(RatMin(RatSub(One, Rat(value[1], value[2] * number_of_vessels)), One), Zero)

\* line 220 without the complement
PairValueUsable(value) == RatMin(value, One)

\* line 220: 1 - min(value, 1)
PairValue(value) == RatSub(One, RatMin(value, One))

\* consolidate_intervals on the data generate_intervals returned
Consolidate ==
    /\ pc = "generated"
    /\ \E vs \in LoopVessels(share_list) :
        LET sh == ConnectedShares(share_list)
            number_of_vessels == IntSum(amount, vs)
            open == {p[1] : p \in OpenPairs(sh)}
        IN /\ vessels' = vs
           /\ IF open # {} /\ number_of_vessels = 0
              THEN /\ pc' = "raised"
                   /\ error' = Some("ZeroDivisionError")
                   /\ UNCHANGED <<consolidated, minimum_water_level, ret>>
              ELSE /\ minimum_water_level' =
                        [s \in Stations |->
                            IF s \in open
                            THEN StationThreshold(StationSum(sh, s), number_of_vessels)
                            ELSE One]
                   /\ consolidated' =
                        [p \in OpenPairs(sh) |->
                            PairValue(ConsolidatedSum(sh, p[1], p[2]))]
                   /\ ret' = Some(<<consolidated', Stations, vs>>)
                   /\ pc' = "done"
                   /\ UNCHANGED error
    /\ UNCHANGED <<evalVars, lines, current_level, last_row, timestamps, share_counts,
                   share_list, written, amount, modelVars, dataVars>>

NextTidal == GenRow \/ GenEOF \/ GenFinish \/ Consolidate

SpecTidal == InitTidal /\ [][NextTidal]_vars

(***************************************************************************)
(* Claims about generate_intervals and consolidate_intervals               *)
(***************************************************************************)
\* C4: when generate_intervals has completed, the counts sum to the number
\* of processed timestamps and the joint-share fractions sum to 1.
C4_FractionsSumToOne ==
    pc \in {"generated", "done"} =>
        /\ IntSum([i \in DOMAIN share_counts |-> share_counts[i].count],
                  DOMAIN share_counts) = timestamps
        /\ RatSum([i \in DOMAIN share_list |-> share_list[i].value],
                  DOMAIN share_list) = One

\* the pair is open in a combination as generate_intervals recorded it
OpenIn(key, s, v) ==
    \E j \in DOMAIN key : key[j][1] = s /\ \E k \in DOMAIN key[j][2] : key[j][2][k] = v

\* the fraction of time the (station, vessel) pair is usable: the summed
\* fractions of the joint combinations in which the pair is open
UsableFraction(s, v) ==
    LET idx == {i \in DOMAIN share_list : OpenIn(share_list[i].key, s, v)}
    IN RatSum([i \in idx |-> share_list[i].value], idx)

\* C5 as stated: the consolidated scalar of a pair is the summed fraction of
\* the joint combinations in which the pair is open.
C5_ConsolidatedIsUsableFraction ==
    pc = "done" =>
        \A p \in DOMAIN consolidated : consolidated[p] = UsableFraction(p[1], p[2])

\* C5 amended: the pairs with a consolidated scalar are the pairs open in
\* some joint combination, and the scalar is 1 minus the summed fraction of
\* the combinations in which the pair is open (the fraction of time the pair
\* is not usable).
C5_ConsolidatedIsClosedFraction ==
    pc = "done" =>
        /\ DOMAIN consolidated =
              {p \in Stations \X Vessels : RatLess(Zero, UsableFraction(p[1], p[2]))}
        /\ \A p \in DOMAIN consolidated :
              consolidated[p] = RatSub(One, UsableFraction(p[1], p[2]))

\* a pair that is usable at one of two timestamps was consolidated
C5_Witness ==
    /\ pc = "done"
    /\ \E p \in DOMAIN consolidated :
          UsableFraction(p[1], p[2]) = <<1, 2>> /\ Len(share_list) = 2

InUnit(x) == RatLeq(Zero, x) /\ RatLeq(x, One)

\* C6: every consolidated (station, vessel) value and every station's
\* minimum_water_level set by consolidate_intervals lies in [0, 1], also for
\* stations open in no joint combination.
C6_ValuesInUnitInterval ==
    pc = "done" =>
        /\ \A p \in DOMAIN consolidated : InUnit(consolidated[p])
        /\ \A s \in Stations : InUnit(minimum_water_level[s])

\* consolidation ran on a distribution in which one station is never open
\* and another is open with a fleet share above the divisor used
C6_Witness ==
    /\ pc = "done"
    /\ share_list # <<>>
    /\ \E s \in Stations : \A v \in Vessels : UsableFraction(s, v) = Zero
    /\ \E s \in Stations : \E v \in Vessels : RatLess(Zero, UsableFraction(s, v))

\* the threshold the consolidator is specified to set
ClaimedThreshold(s) ==
    LET fleet == IntSum(amount, Vessels)
        tot == RatSum([v \in Vessels |-> RatMul(UsableFraction(s, v), Rat(amount[v], 1))],
                      Vessels)
        n == Rat(tot[1], tot[2] * fleet)
    IN RatMax(RatMin(RatSub(One, n), One), Zero)

\* C7: each station's minimum_water_level is clamp(1 - N, 0, 1) with N the
\* sum over vessel types of usable fraction x fleet size, divided by the total
\* fleet size of all vessel types of the scenario.
C7_ThresholdNormalisedByFleet ==
    pc = "done" => \A s \in Stations : minimum_water_level[s] = ClaimedThreshold(s)

\* at the row no station has a fitting vessel
NoStationFits(row) ==
    \A s \in Stations :
        \/ UsedLevels(s, row) = {}
        \/ DivisionByZero(s, row)
        \/ FittingVessels(s, row) = {}

\* C8: a processed timestamp at which no station has a fitting vessel ends
\* the run with an error raised at that timestamp; nothing is returned and
\* no artifact is written.
C8_NoOpenStationRaises ==
    (last_row # None /\ NoStationFits(last_row[1])) =>
        /\ pc = "raised"
        /\ error # None
        /\ lines = timestamps
        /\ ret = None
        /\ share_list = None
        /\ written = {}

\* the second row of a series opened no station after the first had been
\* counted
C8_Witness ==
    /\ pc = "raised"
    /\ error = Some("No stations opened")
    /\ lines = 2
    /\ share_counts # <<>>
    /\ \A s \in Stations : UsedLevels(s, last_row[1]) # {}
    /\ written = {}

(***************************************************************************)
(* The coverage models (Solvers/gurobi_*.py, run_gurobi.py) on the data    *)
(* DataHouse.create_all prepares, and the extraction of the assignment     *)
(* (test.py lines 79-88)                                                   *)
(***************************************************************************)
SolveTypes == {"GUROBI_MANY_ZONES", "GUROBI_BETTER_TIDAL", "GUROBI_BEST_TIDAL"}

RECURSIVE SetToSeq(_)
\* the elements of a dictionary's key set in its iteration order
SetToSeq(S) ==
    IF S = {} THEN <<>>
    ELSE LET e == CHOOSE a \in S : TRUE
         IN <<e>> \o SetToSeq(S \ {e})

RECURSIVE SortedRats(_)
\* sorted(S) for a set of floats
SortedRats(S) ==
    IF S = {} THEN <<>>
    ELSE LET m == CHOOSE a \in S : \A b \in S : RatLeq(a, b)
         IN <<m>> \o SortedRats(S \ {m})

\* a pairing that starts every interval at the first value
PairwiseFromFirst(sq) == [k \in 1..(Len(sq) - 1) |-> <<sq[1], sq[k + 1]>>]

\* itertools.pairwise
Pairwise(sq) == [k \in 1..(Len(sq) - 1) |-> <<sq[k], sq[k + 1]>>]

Range(f) == {f[k] : k \in DOMAIN f}

\* consolidate_intervals line 213 on the connected shares: the name `vessels`
\* holds the vessel set of the pair iterated last, or the loaded list
ReturnedVessels(sh) ==
    IF sh = {} THEN {Vessels} ELSE {p[2] : p \in UNION {r.key : r \in sh}}

\* Zone.reachable_from_by, filled by DataHouse.reachable_for_zones for the
\* vessel types of the scenario
ZoneReachable(z) == {p \in reachable_from_by(z, reach) : p[2] \in vessels}

\* enumerate(shares.keys()) of the Best-tidal model, index k - 1 at place k
ShareOrder == SetToSeq(shares)

\* gurobi_more_zones.py lines 33-36
WaterlevelsManyZones ==
    Pairwise(SortedRats({Zero, One} \cup {minimum_water_level[s] : s \in Stations}))

\* gurobi_better_tidal.py lines 33-34
WaterlevelsBetterTidal ==
    Pairwise(SortedRats({consolidated[p] : p \in DOMAIN consolidated} \cup {Zero, One}))

\* a bug that compares with the upper bound of the interval
opened_by_upper_bound(waterlevel) ==
    {key \in DOMAIN consolidated : RatLeq(consolidated[key], waterlevel[2])}

\* gurobi_better_tidal.py lines 35-39
opened_by_waterlevel(waterlevel) ==
    {key \in DOMAIN consolidated : RatLeq(consolidated[key], waterlevel[1])}

\* the conditions on a y variable the three models share
SharedConditions(s, v, z, i) ==
    /\ v \in allowed_vessels[i]
    /\ s \in allowed_ports[v]
    /\ RatLess(Zero, ProbGet(i, z))
    /\ <<s, v>> \in ZoneReachable(z)

\* a bug that leaves the incident weight out
BaseCoefficientUnweighted(s, v, z, i) ==
    RatMul(ProbGet(i, z), Rat(distance_to(s, z), speed[v]))

\* probability x distance / speed x weight
BaseCoefficient(s, v, z, i) ==
    RatMul(RatMul(ProbGet(i, z), Rat(distance_to(s, z), speed[v])), weight[i])

\* a bug that takes every vessel type for a station of the combination
YBestTidalAnyVessel ==
    LET keys == {t \in Stations \X (0..(Len(ShareOrder) - 1)) \X Vessels \X Zones \X Incidents :
                    /\ \E p \in ShareOrder[t[2] + 1].key : p[1] = t[1]
                    /\ SharedConditions(t[1], t[3], t[4], t[5])}
    IN [t \in keys |->
          RatMul(BaseCoefficient(t[1], t[3], t[4], t[5]), ShareOrder[t[2] + 1].value)]

\* gurobi_best_tidal.py lines 32-47
YBestTidal ==
    LET keys == {t \in Stations \X (0..(Len(ShareOrder) - 1)) \X Vessels \X Zones \X Incidents :
                    /\ \E p \in ShareOrder[t[2] + 1].key : p[1] = t[1] /\ t[3] \in p[2]
                    /\ SharedConditions(t[1], t[3], t[4], t[5])}
    IN [t \in keys |->
          RatMul(BaseCoefficient(t[1], t[3], t[4], t[5]), ShareOrder[t[2] + 1].value)]

\* a bug that opens a pair only in the interval that starts at its value
YBetterTidalAtThreshold ==
    LET wls == WaterlevelsBetterTidal
        keys == {t \in Stations \X (0..(Len(wls) - 1)) \X vessels \X Zones \X Incidents :
                    /\ <<t[1], t[3]>> \in DOMAIN consolidated
                    /\ consolidated[<<t[1], t[3]>>] = wls[t[2] + 1][1]
                    /\ SharedConditions(t[1], t[3], t[4], t[5])}
    IN [t \in keys |->
          RatMul(BaseCoefficient(t[1], t[3], t[4], t[5]),
                 RatSub(wls[t[2] + 1][2], wls[t[2] + 1][1]))]

\* gurobi_better_tidal.py lines 41-55
YBetterTidal ==
    LET wls == WaterlevelsBetterTidal
        keys == {t \in Stations \X (0..(Len(wls) - 1)) \X vessels \X Zones \X Incidents :
                    /\ <<t[1], t[3]>> \in opened_by_waterlevel(wls[t[2] + 1])
                    /\ SharedConditions(t[1], t[3], t[4], t[5])}
    IN [t \in keys |->
          RatMul(BaseCoefficient(t[1], t[3], t[4], t[5]),
                 RatSub(wls[t[2] + 1][2], wls[t[2] + 1][1]))]

\* a bug that opens a station in the intervals up to its threshold
YManyZonesBelow ==
    LET wls == Range(WaterlevelsManyZones)
        keys == {t \in Stations \X {wl[1] : wl \in wls} \X vessels \X Zones \X Incidents :
                    /\ RatLeq(t[2], minimum_water_level[t[1]])
                    /\ SharedConditions(t[1], t[3], t[4], t[5])}
    IN [t \in keys |->
          LET wl == CHOOSE w \in wls : w[1] = t[2]
          IN RatMul(BaseCoefficient(t[1], t[3], t[4], t[5]), RatSub(wl[2], wl[1]))]

\* gurobi_more_zones.py lines 38-50: the key holds waterlevel[0]
YManyZones ==
    LET wls == Range(WaterlevelsManyZones)
        keys == {t \in Stations \X {wl[1] : wl \in wls} \X vessels \X Zones \X Incidents :
                    /\ RatLeq(minimum_water_level[t[1]], t[2])
                    /\ SharedConditions(t[1], t[3], t[4], t[5])}
    IN [t \in keys |->
          LET wl == CHOOSE w \in wls : w[1] = t[2]
          IN RatMul(BaseCoefficient(t[1], t[3], t[4], t[5]), RatSub(wl[2], wl[1]))]

\* the second key component of the states the incident_covered constraints
\* range over
ModelStates ==
    IF solver = "GUROBI_BEST_TIDAL" THEN 0..(Len(ShareOrder) - 1)
    ELSE IF solver = "GUROBI_BETTER_TIDAL" THEN 0..(Len(WaterlevelsBetterTidal) - 1)
    ELSE {wl[1] : wl \in Range(WaterlevelsManyZones)}

(***************************************************************************)
(* A constraint lhs_x + lhs_y  sense  const + coef * rhs_x, each side a    *)
(* sum of binary variables.                                                *)
(***************************************************************************)
\* a bug that caps a vessel type by the number of stations
vessel_assignment_1_by_stations(v) ==
    [name |-> "vessel_assignment_1", idx |-> <<v>>,
     lhs_x |-> {<<v, s>> : s \in allowed_ports[v]}, lhs_y |-> {},
     sense |-> "<=", const |-> Cardinality(Stations), coef |-> 0, rhs_x |-> {}]

\* quicksum(x[vessel, station] for station in vessel.allowed_ports) <= vessel.amount
vessel_assignment_1(v) ==
    [name |-> "vessel_assignment_1", idx |-> <<v>>,
     lhs_x |-> {<<v, s>> : s \in allowed_ports[v]}, lhs_y |-> {},
     sense |-> "<=", const |-> amount[v], coef |-> 0, rhs_x |-> {}]

\* quicksum(x[vessel, station] for vessel in station.allowed_vessels) <= 1
vessel_assignment_2(s) ==
    [name |-> "vessel_assignment_2", idx |-> <<s>>,
     lhs_x |-> {<<v, s>> : v \in station_allowed_vessels[s]}, lhs_y |-> {},
     sense |-> "<=", const |-> 1, coef |-> 0, rhs_x |-> {}]

\* y.select(station, '*', vessel, '*', '*')
YSelectPair(yk, s, v) == {t \in yk : t[1] = s /\ t[3] = v}

\* a bug that bounds the responses of a pair by their number only
vessel_assigned_if_used_unlinked(yk, s, v) ==
    [name |-> "vessel_assigned_if_used", idx |-> <<s, v>>,
     lhs_x |-> {}, lhs_y |-> YSelectPair(yk, s, v),
     sense |-> "<=", const |-> Cardinality(YSelectPair(yk, s, v)), coef |-> 0,
     rhs_x |-> {}]

\* quicksum(y_select) <= len(y_select) * x[vessel, station]
vessel_assigned_if_used(yk, s, v) ==
    [name |-> "vessel_assigned_if_used", idx |-> <<s, v>>,
     lhs_x |-> {}, lhs_y |-> YSelectPair(yk, s, v),
     sense |-> "<=", const |-> 0, coef |-> Cardinality(YSelectPair(yk, s, v)),
     rhs_x |-> {<<v, s>>}]

\* a bug that selects the responses of all availability states
incident_covered_any_state(yk, state, z, i) ==
    [name |-> "incident_covered", idx |-> <<state, z, i>>,
     lhs_x |-> {}, lhs_y |-> {t \in yk : t[4] = z /\ t[5] = i},
     sense |-> "==", const |-> 1, coef |-> 0, rhs_x |-> {}]

\* quicksum(y.select('*', waterlevel, '*', zone, incident)) == 1
incident_covered(yk, state, z, i) ==
    [name |-> "incident_covered", idx |-> <<state, z, i>>,
     lhs_x |-> {}, lhs_y |-> {t \in yk : t[2] = state /\ t[4] = z /\ t[5] = i},
     sense |-> "==", const |-> 1, coef |-> 0, rhs_x |-> {}]

\* the right-hand side of a constraint under the x variables set to 1
Rhs(c, xs) == c.const + c.coef * Cardinality(c.rhs_x \cap xs)

\* the value of a constraint under the variables set to 1
Satisfied(c, xs, ys) ==
    LET lhs == Cardinality(c.lhs_x \cap xs) + Cardinality(c.lhs_y \cap ys)
    IN IF c.sense = "==" THEN lhs = Rhs(c, xs) ELSE lhs <= Rhs(c, xs)

Feasible(cs, xs, ys) == \A c \in cs : Satisfied(c, xs, ys)

\* the y variables that a constraint "sum of y <= 0" holds at 0 under xs
ForcedZero(cs, xs) ==
    UNION {c.lhs_y : c \in {d \in cs : d.sense = "<=" /\ d.lhs_x = {} /\ Rhs(d, xs) = 0}}

RECURSIVE Picks(_, _)
\* one variable, outside the set zero, out of the left-hand side of each
\* constraint of cs
Picks(cs, zero) ==
    IF cs = {} THEN {{}}
    ELSE LET c == CHOOSE a \in cs : TRUE
         IN {r \cup {t} : r \in Picks(cs \ {c}, zero), t \in c.lhs_y \ zero}

\* every 0/1 vector that satisfies the constraints cs.  The vectors are
\* enumerated from the constraints on x alone, the "sum of y <= 0"
\* constraints these leave, and the "sum of y == 1" constraints, and then
\* tested against all of cs.
Solutions(xk, yk, cs) ==
    LET xonly == {c \in cs : c.lhs_y = {} /\ c.rhs_x = {}}
        one == {c \in cs : c.sense = "==" /\ c.lhs_x = {} /\ c.rhs_x = {} /\ c.const = 1}
        free == yk \ UNION {c.lhs_y : c \in one}
        xcand == {xs \in SUBSET xk : Feasible(xonly, xs, {})}
        ycand(xs) == {r \cup f : r \in Picks(one, ForcedZero(cs, xs)),
                                 f \in SUBSET (free \ ForcedZero(cs, xs))}
    IN UNION {{[x |-> xs, y |-> ys] : ys \in {yc \in ycand(xs) : Feasible(cs, xs, yc)}} :
                 xs \in xcand}

\* the objective coefficient of an x variable: addVar without obj
XObjective(k) == Zero

\* model.ObjVal of a solution
ObjVal(sol) ==
    RatAdd(RatSum([k \in sol.x |-> XObjective(k)], sol.x), RatSum(yvars, sol.y))

\* the scenarios the coverage models are built for: one range for all vessel
\* types, incidents that appear in zone 1 and may appear in zone 2
ModelReach == {r \in [Vessels -> ReachValues] : \A v, w \in Vessels : r[v] = r[w]}
ModelProbabilities ==
    {p \in [Incidents -> [Zones -> ProbValues]] : \A i \in Incidents : p[i][1] # Zero}

\* DataHouse.create_all up to the call of optimize (test.py lines 41-57)
InitModel ==
    /\ pc = "create"
    /\ ret = None
    /\ error = None
    /\ solver \in SolveTypes
    /\ shares \in ShareInputs
    /\ vessels \in ReturnedVessels(shares)
    /\ amount \in [Vessels -> 1..MaxAmount]
    /\ minimum_water_level =
          [s \in Stations |->
              IF \E p \in OpenPairs(shares) : p[1] = s
              THEN StationThreshold(StationSum(shares, s), IntSum(amount, vessels))
              ELSE One]
    /\ station_allowed_vessels \in [Stations -> SUBSET vessels \ {{}}]
    /\ allowed_ports = [v \in Vessels |-> {s \in Stations : v \in station_allowed_vessels[s]}]
    /\ consolidated =
          [p \in {q \in OpenPairs(shares) : q[1] \in allowed_ports[q[2]]} |->
              PairValue(ConsolidatedSum(shares, p[1], p[2]))]
    /\ reach \in ModelReach
    /\ allowed_vessels \in [Incidents -> SUBSET vessels \ {{}}]
    /\ probability_by_zone \in ModelProbabilities
    /\ assignment = None
    /\ todo = None
    /\ val = None
    /\ unfullfilled = None
    /\ unfilled_number = None
    /\ unfullfilled_weight = None
    /\ used = None
    /\ lines = None
    /\ current_level = None
    /\ last_row = None
    /\ timestamps = None
    /\ share_counts = None
    /\ share_list = None
    /\ written = None
    /\ xvars = None
    /\ yvars = None
    /\ constrs = None
    /\ status = None
    /\ solution = None
    /\ DataIdle

\* create_model of the chosen solver
CreateModel ==
    /\ pc = "create"
    /\ LET xk == {k \in vessels \X Stations : k[2] \in allowed_ports[k[1]]}
           yv == IF solver = "GUROBI_BEST_TIDAL" THEN YBestTidal
                 ELSE IF solver = "GUROBI_BETTER_TIDAL" THEN YBetterTidal
                 ELSE YManyZones
           yk == DOMAIN yv
           cs == {vessel_assignment_1(v) : v \in vessels}
                 \cup {vessel_assignment_2(s) : s \in Stations}
                 \cup {vessel_assigned_if_used(yk, p[1], p[2]) :
                          p \in {q \in Stations \X Vessels :
                                    q[2] \in station_allowed_vessels[q[1]]}}
                 \cup {incident_covered(yk, t[1], t[2], t[3]) :
                          t \in {u \in ModelStates \X Zones \X Incidents :
                                    RatLess(Zero, ProbGet(u[3], u[2]))}}
       IN IF \E c \in cs : ~(c.lhs_x \cup c.rhs_x \subseteq xk)
          THEN /\ pc' = "raised"
               /\ error' = Some("KeyError")
               /\ UNCHANGED <<xvars, yvars, constrs>>
          ELSE /\ xvars' = xk
               /\ yvars' = yv
               /\ constrs' = cs
               /\ pc' = "optimize"
               /\ UNCHANGED error
    /\ UNCHANGED <<ret, evalVars, tidalVars, solver, allowed_ports,
                   station_allowed_vessels, status, solution, dataVars>>

\* model.optimize(): the solver ends with a proven optimum, at the time
\* limit with or without an incumbent, or with a proof of infeasibility
Optimize ==
    /\ pc = "optimize"
    /\ LET sols == Solutions(xvars, DOMAIN yvars, constrs)
           best == MinOver({ObjVal(sol) : sol \in sols}, Inf)
       IN \/ /\ sols = {}
             /\ status' = "INFEASIBLE"
             /\ solution' = None
          \/ /\ status' = "TIME_LIMIT"
             /\ solution' = None
          \/ \E sol \in sols :
                /\ solution' = Some(sol)
                /\ status' \in (IF ObjVal(sol) = best THEN {"OPTIMAL", "TIME_LIMIT"}
                                ELSE {"TIME_LIMIT"})
    /\ pc' = "solved"
    /\ UNCHANGED <<ret, error, evalVars, tidalVars, solver, allowed_ports,
                   station_allowed_vessels, xvars, yvars, constrs, dataVars>>

\* name=f"x_{vessel.identifier}_{station.identifier}"
VarName(k) == <<"x", k[1], k[2]>>

\* test.py lines 84-88: the assignments the loop over getVars() can end with
ExtractedAssignments(xs) ==
    LET names == {VarName(k) : k \in xs}
    IN {a \in [{n[3] : n \in names} -> Vessels] :
           \A s \in DOMAIN a : <<"x", a[s], s>> \in names}

\* test.py lines 79-90
Extract ==
    /\ pc = "solved"
    /\ IF status \in {"OPTIMAL", "TIME_LIMIT"}
       THEN IF solution = None
            THEN /\ pc' = "raised"
                 /\ error' = Some("AttributeError")
                 /\ UNCHANGED assignment
            ELSE /\ \E a \in ExtractedAssignments(solution[1].x) : assignment' = a
                 /\ pc' = "extracted"
                 /\ UNCHANGED error
       ELSE /\ assignment' = <<>>
            /\ pc' = "extracted"
            /\ UNCHANGED error
    /\ UNCHANGED <<ret, shares, allowed_vessels, probability_by_zone, reach, todo, val,
                   unfullfilled, unfilled_number, unfullfilled_weight, used, tidalVars,
                   modelVars, dataVars>>

NextModel == CreateModel \/ Optimize \/ Extract

SpecModel == InitModel /\ [][NextModel]_vars

(***************************************************************************)
(* Claims about the coverage models                                        *)
(***************************************************************************)
\* the stations a vessel type is stationed at in a solution
StationedAt(xs, v) == {s \in Stations : <<v, s>> \in xs}

\* C9: in every feasible solution of each of the three coverage models each
\* vessel type is stationed at no more stations than its fleet size and each
\* station has at most one vessel type, and so also in the extracted
\* assignment, which holds exactly the pairs with x = 1.
C9_FleetCap ==
    solution # None /\ pc \in {"solved", "extracted"} =>
        LET xs == solution[1].x
        IN /\ \A v \in Vessels : Cardinality(StationedAt(xs, v)) <= amount[v]
           /\ \A s \in Stations : Cardinality({v \in Vessels : <<v, s>> \in xs}) <= 1
           /\ pc = "extracted" =>
                /\ {<<assignment[s], s>> : s \in DOMAIN assignment} = xs
                /\ \A v \in Vessels :
                      Cardinality({s \in DOMAIN assignment : assignment[s] = v}) <= amount[v]

\* an assignment was extracted from a solution in which a vessel type with
\* one vessel, allowed at both stations, is stationed at one of them and the
\* other station has the other vessel type
C9_Witness ==
    /\ pc = "extracted"
    /\ solution # None
    /\ \E v \in Vessels :
          /\ amount[v] = 1
          /\ Cardinality(allowed_ports[v]) = 2
          /\ Cardinality(StationedAt(solution[1].x, v)) = 1
    /\ Cardinality(DOMAIN assignment) = 2

\* C10: in every feasible solution of each of the three coverage models a
\* response variable y of (station, state, vessel, zone, incident) is 1 only
\* if x[vessel, station] is 1.
C10_ResponseNeedsStationing ==
    solution # None /\ pc \in {"solved", "extracted"} =>
        \A t \in solution[1].y : <<t[3], t[1]>> \in solution[1].x

\* a solution with responses, found while a pair with y variables has no
\* vessel stationed
C10_Witness ==
    /\ pc = "solved"
    /\ solution # None
    /\ solution[1].y # {}
    /\ \E t \in DOMAIN yvars : <<t[3], t[1]>> \notin solution[1].x

\* the (availability state, zone, incident) combinations of positive
\* incident probability
PositiveCombinations ==
    {u \in ModelStates \X Zones \X Incidents : RatLess(Zero, ProbGet(u[3], u[2]))}

\* the y variables of a combination among the set ys
Covering(ys, u) == {t \in ys : t[2] = u[1] /\ t[4] = u[2] /\ t[5] = u[3]}

\* C11: in each of the three coverage models every feasible solution has
\* exactly one y variable at 1 for every (availability state, zone, incident)
\* combination of positive probability, and a model in which some such
\* combination has no y variable has no feasible solution.
C11_ExactlyOneResponse ==
    pc \in {"solved", "extracted"} =>
        /\ solution # None =>
              \A u \in PositiveCombinations :
                  Cardinality(Covering(solution[1].y, u)) = 1
        /\ (\E u \in PositiveCombinations : Covering(DOMAIN yvars, u) = {}) =>
              /\ solution = None
              /\ status \in {"INFEASIBLE", "TIME_LIMIT"}
              /\ Solutions(xvars, DOMAIN yvars, constrs) = {}

\* a solution of a model with two availability states and two zones of
\* positive probability, one combination having two y variables to choose from
C11_Witness ==
    /\ pc = "solved"
    /\ solution # None
    /\ Cardinality(PositiveCombinations) = 4
    /\ \E u \in PositiveCombinations : Cardinality(Covering(DOMAIN yvars, u)) >= 2

\* a model found infeasible because one combination has no y variable while
\* another has one
C11_WitnessInfeasible ==
    /\ pc = "solved"
    /\ status = "INFEASIBLE"
    /\ \E u \in PositiveCombinations : Covering(DOMAIN yvars, u) = {}
    /\ \E u \in PositiveCombinations : Covering(DOMAIN yvars, u) # {}

\* the conditions of eligibility the three models are specified to share:
\* the vessel is allowed at the station, permitted for the incident, the
\* incident has positive probability in the zone, and the one-way distance
\* is at most half the reach
ClaimedShared(s, v, z, i) ==
    /\ v \in station_allowed_vessels[s]
    /\ v \in allowed_vessels[i]
    /\ RatLess(Zero, ProbGet(i, z))
    /\ distance_to(s, z) * 2 <= reach[v]

\* C12: in the Best-tidal model there is one state per joint combination of
\* the unconsolidated share distribution, and the y variable of (station,
\* state, vessel, zone, incident) exists iff the state's combination holds the
\* station with the vessel among its fitting vessels, the vessel is allowed at
\* the station and permitted for the incident, the incident has positive
\* probability in the zone and the pair reaches the zone.
C12_BestTidalVariables ==
    solver = "GUROBI_BEST_TIDAL" /\ pc \in {"optimize", "solved", "extracted"} =>
        /\ ModelStates = 0..(Cardinality(shares) - 1)
        /\ {ShareOrder[k + 1] : k \in ModelStates} = shares
        /\ \A t \in Stations \X ModelStates \X Vessels \X Zones \X Incidents :
              t \in DOMAIN yvars <=>
                  /\ \E p \in ShareOrder[t[2] + 1].key : p[1] = t[1] /\ t[3] \in p[2]
                  /\ ClaimedShared(t[1], t[3], t[4], t[5])
        /\ DOMAIN yvars \subseteq Stations \X ModelStates \X Vessels \X Zones \X Incidents

\* a Best-tidal model over two joint combinations in which a vessel type
\* that meets every other condition at a station of a combination has no y
\* variable there because it does not fit, while another one has
C12_Witness ==
    /\ solver = "GUROBI_BEST_TIDAL"
    /\ pc = "optimize"
    /\ Cardinality(shares) = 2
    /\ DOMAIN yvars # {}
    /\ \E t \in Stations \X ModelStates \X Vessels \X Zones \X Incidents :
          /\ t \notin DOMAIN yvars
          /\ ClaimedShared(t[1], t[3], t[4], t[5])
          /\ \E p \in ShareOrder[t[2] + 1].key : p[1] = t[1] /\ t[3] \notin p[2]

\* C13 as stated: in the Many-zones model a y variable of a station and an
\* interval exists only if the interval's lower bound does not exceed the
\* station's minimum_water_level and the shared conditions hold.
C13_ThresholdBelowMinimum ==
    solver = "GUROBI_MANY_ZONES" /\ pc \in {"optimize", "solved", "extracted"} =>
        \A t \in DOMAIN yvars :
            /\ RatLeq(t[2], minimum_water_level[t[1]])
            /\ ClaimedShared(t[1], t[3], t[4], t[5])

\* C13 amended: in the Many-zones model a y variable of a station and an
\* interval exists only if the interval's lower bound is at least the
\* station's minimum_water_level (the fraction of time the station is
\* closed) and the shared conditions hold.
C13_ThresholdAtLeastMinimum ==
    solver = "GUROBI_MANY_ZONES" /\ pc \in {"optimize", "solved", "extracted"} =>
        \A t \in DOMAIN yvars :
            /\ t[2] \in {wl[1] : wl \in Range(WaterlevelsManyZones)}
            /\ RatLeq(minimum_water_level[t[1]], t[2])
            /\ ClaimedShared(t[1], t[3], t[4], t[5])

\* a Many-zones model with two intervals in which a station has a y variable
\* in an interval that starts above its minimum_water_level, and a station
\* that meets the shared conditions has none in an interval that starts below
C13_Witness ==
    /\ solver = "GUROBI_MANY_ZONES"
    /\ pc = "optimize"
    /\ Len(WaterlevelsManyZones) >= 2
    /\ \E t \in DOMAIN yvars : RatLess(minimum_water_level[t[1]], t[2])
    /\ \E t \in Stations \X {wl[1] : wl \in Range(WaterlevelsManyZones)}
                \X Vessels \X Zones \X Incidents :
          /\ t \notin DOMAIN yvars
          /\ ClaimedShared(t[1], t[3], t[4], t[5])
          /\ RatLess(t[2], minimum_water_level[t[1]])

\* the pairs of the consolidated share data with a value of at most b
ConsolidatedUpTo(b) ==
    {p \in DOMAIN consolidated : RatLeq(consolidated[p], b)}

\* C14: in the Better-tidal model the (station, vessel) pairs that can get y
\* variables in an availability interval are exactly the pairs of the
\* consolidated share data whose value is at most the interval's lower bound:
\* a y variable exists iff its pair is one of them and meets the shared
\* conditions.
C14_BetterTidalOpenedPairs ==
    solver = "GUROBI_BETTER_TIDAL" /\ pc \in {"optimize", "solved", "extracted"} =>
        LET wls == WaterlevelsBetterTidal
        IN /\ ModelStates = 0..(Len(wls) - 1)
           /\ \A t \in Stations \X ModelStates \X Vessels \X Zones \X Incidents :
                 t \in DOMAIN yvars <=>
                     /\ <<t[1], t[3]>> \in ConsolidatedUpTo(wls[t[2] + 1][1])
                     /\ ClaimedShared(t[1], t[3], t[4], t[5])
           /\ DOMAIN yvars \subseteq Stations \X ModelStates \X Vessels \X Zones \X Incidents

\* a Better-tidal model with two intervals in which a pair that meets the
\* shared conditions has a y variable in the second interval only
C14_Witness ==
    /\ solver = "GUROBI_BETTER_TIDAL"
    /\ pc = "optimize"
    /\ Len(WaterlevelsBetterTidal) = 2
    /\ \E t \in DOMAIN yvars :
          /\ t[2] = 1
          /\ <<t[1], 0, t[3], t[4], t[5]>> \notin DOMAIN yvars
          /\ consolidated[<<t[1], t[3]>>] = <<1, 2>>

\* the thresholds of the interval models: the distinct station thresholds
\* (Many-zones) or the distinct consolidated values (Better-tidal) with 0, 1
Thresholds ==
    {Zero, One} \cup
    (IF solver = "GUROBI_MANY_ZONES"
     THEN {minimum_water_level[s] : s \in Stations}
     ELSE {consolidated[p] : p \in DOMAIN consolidated})

\* the threshold that follows a in the sorted thresholds
NextThreshold(a) ==
    CHOOSE b \in Thresholds :
        RatLess(a, b) /\ \A c \in Thresholds : RatLess(a, c) => RatLeq(b, c)

\* the time-fraction of the availability state of a y variable
TimeFraction(t) ==
    IF solver = "GUROBI_BEST_TIDAL" THEN ShareOrder[t[2] + 1].value
    ELSE LET lower == IF solver = "GUROBI_MANY_ZONES" THEN t[2]
                      ELSE CHOOSE a \in Thresholds :
                              Cardinality({c \in Thresholds : RatLess(c, a)}) = t[2]
         IN RatSub(NextThreshold(lower), lower)

ClaimedCoefficient(t) ==
    RatMul(RatMul(RatMul(ProbGet(t[5], t[4]), TravelTime(t[1], t[3], t[4])), weight[t[5]]),
           TimeFraction(t))

\* C15: in each of the three coverage models the objective coefficient of
\* every y variable is probability x (distance / speed) x weight x
\* time-fraction of its availability state (the share's fraction in Best-tidal,
\* the interval length otherwise), and the x variables add nothing to the
\* objective.
C15_ObjectiveCoefficients ==
    pc \in {"optimize", "solved", "extracted"} =>
        /\ \A t \in DOMAIN yvars : yvars[t] = ClaimedCoefficient(t)
        /\ solution # None =>
              ObjVal(solution[1]) =
                  RatSum([t \in solution[1].y |-> ClaimedCoefficient(t)], solution[1].y)

\* an optimal solution with an objective above 0 that stations a vessel
\* and uses y variables of two availability states with different fractions
C15_Witness ==
    /\ pc = "solved"
    /\ status = "OPTIMAL"
    /\ solution[1].x # {}
    /\ RatLess(Zero, ObjVal(solution[1]))
    /\ \E t, u \in solution[1].y : t[2] # u[2] /\ TimeFraction(t) # TimeFraction(u)

(***************************************************************************)
(* DataHouse.reachable_for_zones (DataHouse.py lines 143-152)              *)
(***************************************************************************)
\* UniqueVesselType.from_json: the reach of a vessel type without range data
UnknownReach == -1

DataReachValues == ReachValues \cup {UnknownReach}

\* the vessel list of the scenario: the loaded list or what
\* consolidate_intervals returned under the name `vessels`
VesselLists == {Vessels} \cup FittingSets

\* a bug that leaves out the pairs at exactly half the reach
WithinReachStrict(d, r) == RatLess(Rat(d, 1), Rat(r, 2))

\* line 151: distance <= vessel.reach / 2
WithinReach(d, r) == RatLeq(Rat(d, 1), Rat(r, 2))

\* the iteration the nested loops of lines 148-150 run next
NextIteration(T) ==
    CHOOSE t \in T :
        \A u \in T : \/ t[1] < u[1]
                     \/ t[1] = u[1] /\ t[2] < u[2]
                     \/ t[1] = u[1] /\ t[2] = u[2] /\ t[3] <= u[3]

InitReach ==
    /\ PipeIdle
    /\ pc = "reachable"
    /\ ret = None
    /\ error = None
    /\ reach \in [Vessels -> DataReachValues]
    /\ vessels \in VesselLists
    /\ zone_reachable_from_by = [z \in Zones |-> {}]
    /\ reach_todo = Zones \X Stations \X vessels
    /\ probability_by_zone = None
    /\ CalculationIdle
    /\ ModelIdle
    /\ ClusterIdle
    /\ ClassIdle
    /\ JsonIdle

\* one iteration of the innermost loop, lines 150-152
ReachableStep ==
    /\ pc = "reachable"
    /\ reach_todo # {}
    /\ LET t == NextIteration(reach_todo)
       IN /\ reach_todo' = reach_todo \ {t}
          /\ zone_reachable_from_by' =
                IF WithinReach(distance_to(t[2], t[1]), reach[t[3]])
                THEN [zone_reachable_from_by EXCEPT ![t[1]] = @ \cup {<<t[2], t[3]>>}]
                ELSE zone_reachable_from_by
    /\ UNCHANGED <<pc, ret, error, evalVars, tidalVars, modelVars, clusterVars,
                   classVars, jsonVars, pipeVars>>

\* the loops are exhausted and the method returns
ReachableReturn ==
    /\ pc = "reachable"
    /\ reach_todo = {}
    /\ pc' = "done"
    /\ UNCHANGED <<ret, error, evalVars, tidalVars, modelVars, dataVars>>

NextReach == ReachableStep \/ ReachableReturn

SpecReach == InitReach /\ [][NextReach]_vars

\* C16: after reachable_for_zones a (station, vessel type) pair is in a
\* zone's reachable_from_by iff the distance between zone and station is at
\* most half the vessel type's reach, for every station and vessel type of
\* the scenario, a vessel type of reach -1 included.
C16_ReachableIffWithinHalfReach ==
    pc = "done" =>
        \A z \in Zones :
            /\ zone_reachable_from_by[z] \subseteq Stations \X vessels
            /\ \A s \in Stations : \A v \in vessels :
                  <<s, v>> \in zone_reachable_from_by[z] <=> distance_to(s, z) * 2 <= reach[v]

\* the method returned for a scenario with a vessel type of reach -1, which
\* reaches no zone, and a vessel type that reaches a zone at exactly half its
\* reach but not the zone farther away
C16_Witness ==
    /\ pc = "done"
    /\ \E v \in vessels :
          /\ reach[v] = UnknownReach
          /\ \A z \in Zones : \A s \in Stations : <<s, v>> \notin zone_reachable_from_by[z]
    /\ \E v \in vessels : \E s \in Stations : \E z, w \in Zones :
          /\ distance_to(s, z) * 2 = reach[v]
          /\ <<s, v>> \in zone_reachable_from_by[z]
          /\ <<s, v>> \notin zone_reachable_from_by[w]

(***************************************************************************)
(* DataHouse.cluster_zones (DataHouse.py lines 216-250)                    *)
(***************************************************************************)
ClusterProbValues == ProbValues \cup {<<1, 4>>}

\* KMeans(n_clusters=k).fit(...).labels_ for zones at pairwise different
\* positions: a cluster index per zone, no cluster left empty; which zones
\* end up together is the library's choice
KMeansLabels(k) ==
    {l \in [Zones -> 0 .. k - 1] : \A c \in 0 .. k - 1 : \E z \in Zones : l[z] = c}

\* the stations lie at 0 and 40 on a line and the zones at 10 and 30 (so that
\* distance_to is 10 or 30); the centre of a cluster is the mean of its zones
Centre(old_zones) == IntSum([z \in old_zones |-> IF z = 1 THEN 10 ELSE 30], old_zones) \div Cardinality(old_zones)

\* zone.position.distance_to(station.position) for a new zone
CentreDistance(s, old_zones) ==
    LET at == IF s = 1 THEN 0 ELSE 40
    IN Abs(Centre(old_zones) - at)

\* a bug that divides by the number of all zones
NewPropOverAllZones(i, old_zones) ==
    LET total == RatSum(probability_by_zone[i], old_zones)
    IN Rat(total[1], total[2] * Cardinality(Zones))

\* line 239: sum([incident.probability_by_zone[z] for z in old_zones]) / len(old_zones)
new_prop(i, old_zones) ==
    LET total == RatSum(probability_by_zone[i], old_zones)
    IN Rat(total[1], total[2] * Cardinality(old_zones))

InitCluster ==
    /\ PipeIdle
    /\ pc = "cluster_zones"
    /\ ret = None
    /\ error = None
    /\ reach \in [Vessels -> DataReachValues]
    /\ vessels \in VesselLists
    /\ probability_by_zone \in [Incidents -> [Zones -> ClusterProbValues]]
    /\ final_amount \in 1 .. Cardinality(Zones)
    /\ labels = None
    /\ origin_zones = None
    /\ new_incident_prop_by_zone = None
    /\ zones_clustered = None
    /\ zone_reachable_from_by = None
    /\ reach_todo = None
    /\ CalculationIdle
    /\ ModelIdle
    /\ ClassIdle
    /\ JsonIdle

\* lines 217-227: the k-means fit and the zones each new zone comes from
KMeansFit ==
    /\ pc = "cluster_zones"
    /\ \E l \in KMeansLabels(final_amount) :
          /\ labels' = l
          /\ origin_zones' = [idx \in 0 .. final_amount - 1 |-> {z \in Zones : l[z] = idx}]
    /\ new_incident_prop_by_zone' = [i \in Incidents |-> <<>>]
    /\ zones_clustered' = <<>>
    /\ pc' = "new_zones"
    /\ UNCHANGED <<ret, error, evalVars, tidalVars, modelVars, reachVars, final_amount,
                   classVars, jsonVars, pipeVars>>

\* lines 231-240: one iteration of the loop that creates the new zones
NewZone ==
    /\ pc = "new_zones"
    /\ Len(zones_clustered) < final_amount
    /\ LET idx == Len(zones_clustered)
       IN /\ zones_clustered' = Append(zones_clustered, idx)
          /\ new_incident_prop_by_zone' =
                [i \in Incidents |->
                    [zone \in DOMAIN new_incident_prop_by_zone[i] \cup {idx} |->
                        IF zone = idx THEN new_prop(i, origin_zones[idx])
                        ELSE new_incident_prop_by_zone[i][zone]]]
    /\ UNCHANGED <<pc, ret, error, evalVars, tidalVars, modelVars, reachVars,
                   final_amount, labels, origin_zones, classVars, jsonVars, pipeVars>>

\* lines 243-250: the new probabilities replace the old ones and the
\* reachability of the new zones is computed
ClusterAssign ==
    /\ pc = "new_zones"
    /\ Len(zones_clustered) = final_amount
    /\ probability_by_zone' = new_incident_prop_by_zone
    /\ zone_reachable_from_by' =
          [zone \in Range(zones_clustered) |->
              {p \in Stations \X vessels :
                  WithinReach(CentreDistance(p[1], origin_zones[zone]), reach[p[2]])}]
    /\ pc' = "done"
    /\ UNCHANGED <<ret, error, shares, assignment, allowed_vessels, reach, todo, val,
                   unfullfilled, unfilled_number, unfullfilled_weight, used,
                   tidalVars, modelVars, reach_todo, clusterVars, classVars, jsonVars, pipeVars>>

NextCluster == KMeansFit \/ NewZone \/ ClusterAssign

SpecCluster == InitCluster /\ [][NextCluster]_vars

\* C17: when cluster_zones replaces the probabilities, each incident type's
\* probability for a new zone is the unweighted mean of its previous
\* probabilities over the zones absorbed into that cluster; with
\* k = len(zones), every cluster a singleton, each zone's probability is the
\* one of the new zone it became.
C17_UnweightedMean ==
    [][pc = "new_zones" /\ pc' = "done" =>
          \A i \in Incidents :
              /\ DOMAIN probability_by_zone'[i] = 0 .. final_amount - 1
              /\ \A zone \in 0 .. final_amount - 1 :
                    RatMul(probability_by_zone'[i][zone], Rat(Cardinality(origin_zones[zone]), 1))
                        = RatSum(probability_by_zone[i], origin_zones[zone])
              /\ final_amount = Cardinality(Zones) =>
                    \A z \in Zones : /\ origin_zones[labels[z]] = {z}
                                     /\ probability_by_zone'[i][labels[z]] = probability_by_zone[i][z]]_vars

\* two zones of probabilities 0 and 1/2 were merged into one zone of
\* probability 1/4
C17_Witness ==
    /\ pc = "done"
    /\ final_amount = 1
    /\ zones_clustered = <<0>>
    /\ origin_zones[0] = Zones
    /\ \E i \in Incidents : probability_by_zone[i][0] = <<1, 4>>
    /\ \E v \in vessels : reach[v] = 60

\* clustering to as many zones as there were: every new zone comes from one
\* zone, and the new zones carry the probabilities 1/2 and 1/4
C17_WitnessSingletons ==
    /\ pc = "done"
    /\ final_amount = Cardinality(Zones)
    /\ \A zone \in Range(zones_clustered) : Cardinality(origin_zones[zone]) = 1
    /\ \E i \in Incidents : {probability_by_zone[i][zone] : zone \in Range(zones_clustered)} = {<<1, 2>>, <<1, 4>>}

(***************************************************************************)
(* The identifiers of VesselType, Station, Zone and Incident_Type          *)
(* (Classes.py lines 64-78, 136-146, 174-185, 208-218)                     *)
(***************************************************************************)
MaxEntities == 3    \* constructor calls per class
MaxIdentifier == 3  \* the largest identifier a caller supplies

EntityKinds == {"VesselType", "Station", "Zone", "Incident_Type"}

\* the identifier argument: None or a number no earlier object holds
Identifiers ==
    {None} \cup {Some(n) : n \in {m \in 0 .. MaxIdentifier :
                                    \A e \in DOMAIN entities : entities[e].identifier # m}}

IntMax(a, b) == IF a < b THEN b ELSE a

\* lines 73-77: self.identifier, and the attribute _counter the assignment
\* of line 77 creates on the object; next(self._counter) reads the counter
\* of the class, the object having no attribute of that name yet
Constructed(identifier) ==
    IF identifier = None
    THEN [identifier |-> counter, _counter |-> None]
    ELSE [identifier |-> identifier[1],
          _counter |-> Some(IntMax(counter, identifier[1] + 1))]

InitIdentifier ==
    /\ PipeIdle
    /\ pc = "construct"
    /\ ret = None
    /\ error = None
    /\ kind \in EntityKinds
    /\ counter = 0
    /\ entities = <<>>
    /\ reach = None
    /\ vessels = None
    /\ probability_by_zone = None
    /\ CalculationIdle
    /\ ModelIdle
    /\ zone_reachable_from_by = None
    /\ reach_todo = None
    /\ ClusterIdle
    /\ JsonIdle

\* __init__ of the class, as far as the identifier goes: both branches call
\* next() on the counter of the class once
Construct ==
    /\ pc = "construct"
    /\ Len(entities) < MaxEntities
    /\ \E identifier \in Identifiers :
          entities' = Append(entities, Constructed(identifier))
    /\ counter' = counter + 1
    /\ UNCHANGED <<pc, ret, error, evalVars, tidalVars, modelVars, reachVars, clusterVars,
                   kind, jsonVars, pipeVars>>

NextIdentifier == Construct

SpecIdentifier == InitIdentifier /\ [][NextIdentifier]_vars

\* C18: for each entity kind, after any sequence of constructions mixing
\* auto-issued identifiers with explicitly supplied, pairwise distinct ones,
\* no two entities of the kind hold the same identifier.
C18_IdentifiersDistinct ==
    \A a, b \in DOMAIN entities :
        a # b => entities[a].identifier # entities[b].identifier

\* an object with a supplied identifier is followed by an object whose
\* identifier the counter issued
C18_Mixed ==
    \E a, b \in DOMAIN entities :
        /\ a < b
        /\ entities[a]._counter # None
        /\ entities[b]._counter = None

(***************************************************************************)
(* Station.__init__ and Station.add_allowed_vessel                         *)
(* (Classes.py lines 139-171)                                              *)
(***************************************************************************)
MaxStations == 2    \* Station objects constructed

\* Station.__eq__ and __hash__: two Station objects are the same element of a
\* set when their identifiers are equal; stations are named by their position
\* in `entities`
StationIn(st, ports) ==
    \E p \in ports : entities[p].identifier = entities[st].identifier

\* set.add on a set of stations: nothing happens when an equal one is in it
AddStation(ports, st) == IF StationIn(st, ports) THEN ports ELSE ports \cup {st}

InitStation ==
    /\ PipeIdle
    /\ pc = "stations"
    /\ ret = None
    /\ error = None
    /\ kind = "Station"
    /\ counter = 0
    /\ entities = <<>>
    /\ station_allowed_vessels = <<>>
    /\ allowed_ports = [v \in Vessels |-> {}]
    /\ solver = None
    /\ xvars = None
    /\ yvars = None
    /\ constrs = None
    /\ status = None
    /\ solution = None
    /\ reach = None
    /\ vessels = None
    /\ probability_by_zone = None
    /\ CalculationIdle
    /\ zone_reachable_from_by = None
    /\ reach_todo = None
    /\ ClusterIdle
    /\ JsonIdle

\* Station.__init__, lines 142-149
StationConstruct ==
    /\ pc = "stations"
    /\ Len(entities) < MaxStations
    /\ \E identifier \in Identifiers : \E allowed \in SUBSET Vessels :
          LET st == Len(entities) + 1
          IN /\ entities' = Append(entities, Constructed(identifier))
             /\ station_allowed_vessels' = Append(station_allowed_vessels, allowed)
             /\ allowed_ports' =
                   [v \in Vessels |->
                       IF v \in allowed
                       THEN IF \E p \in allowed_ports[v] :
                                   entities[p].identifier = Constructed(identifier).identifier
                            THEN allowed_ports[v]
                            ELSE allowed_ports[v] \cup {st}
                       ELSE allowed_ports[v]]
    /\ counter' = counter + 1
    /\ UNCHANGED <<pc, ret, error, evalVars, tidalVars, solver, xvars, yvars, constrs,
                   status, solution, reachVars, clusterVars, kind, jsonVars, pipeVars>>

\* Station.add_allowed_vessel, lines 169-171
add_allowed_vessel ==
    /\ pc = "stations"
    /\ \E st \in DOMAIN entities : \E vessel \in Vessels :
          /\ station_allowed_vessels' =
                [station_allowed_vessels EXCEPT ![st] = @ \cup {vessel}]
          /\ allowed_ports' = [allowed_ports EXCEPT ![vessel] = AddStation(@, st)]
    /\ UNCHANGED <<pc, ret, error, evalVars, tidalVars, solver, xvars, yvars, constrs,
                   status, solution, reachVars, clusterVars, classVars, jsonVars, pipeVars>>

NextStation == StationConstruct \/ add_allowed_vessel

SpecStation == InitStation /\ [][NextStation]_vars

\* C19: after any sequence of Station constructions and add_allowed_vessel
\* calls, for every station and vessel type the vessel type is in
\* station.allowed_vessels iff the station is in vessel.allowed_ports.
C19_AllowedSymmetric ==
    \A st \in DOMAIN entities : \A v \in Vessels :
        v \in station_allowed_vessels[st] <=> StationIn(st, allowed_ports[v])

\* the two sides agree as long as no two stations hold the same identifier
C19_SymmetricWhileDistinct ==
    C18_IdentifiersDistinct => C19_AllowedSymmetric

(***************************************************************************)
(* The tagged-object JSON format: ExtendedJSONEncoder and                  *)
(* json_decoder_hook (Classes.py lines 263-359), as generate_intervals     *)
(* writes and reads it (generate_intervals.py lines 137-148, 166-174)      *)
(*                                                                         *)
(* A Python object is a record with a field `class`, a Python tuple a      *)
(* record with the one field `tuple`, a Python dict a record of its keys,  *)
(* a Python list a sequence.  A JSON object is a record of its members, a  *)
(* JSON array a sequence.                                                  *)
(***************************************************************************)
\* the size of the hash table of a set of up to four elements, and the shift
\* of the probe sequence (CPython: PySet_MINSIZE, PERTURB_SHIFT)
SetSlots == 8
PerturbShift == 5

JsonVesselIds == {1, 3, 11}
JsonStationIds == {1, 2}

\* the slot the probe sequence of set_add_entry looks at after slot i; no
\* linear probing happens in a table of eight slots
NextSlot(i, perturb) == (i * 5 + 1 + perturb) % SetSlots

RECURSIVE FindSlot(_, _, _, _)
\* set_add_entry: the slot that holds an element of this hash or the first
\* unused slot of the probe sequence
FindSlot(table, hash, i, perturb) ==
    IF table[i] = None \/ table[i][1].identifier = hash
    THEN i
    ELSE FindSlot(table, hash, NextSlot(i, perturb \div 2 ^ PerturbShift),
                  perturb \div 2 ^ PerturbShift)

EmptySet == [i \in 0 .. SetSlots - 1 |-> None]

\* set.add for objects whose __hash__ and __eq__ go by identifier: an equal
\* element already in the set stays
SetAdd(table, o) ==
    LET i == FindSlot(table, o.identifier, o.identifier % SetSlots, o.identifier)
    IN IF table[i] = None THEN [table EXCEPT ![i] = Some(o)] ELSE table

RECURSIVE SetFromList(_)
\* set(a_list)
SetFromList(l) ==
    IF l = <<>> THEN EmptySet
    ELSE SetAdd(SetFromList(SubSeq(l, 1, Len(l) - 1)), l[Len(l)])

RECURSIVE ListFromSlot(_, _)
ListFromSlot(table, i) ==
    IF i = SetSlots THEN <<>>
    ELSE IF table[i] = None THEN ListFromSlot(table, i + 1)
         ELSE <<table[i][1]>> \o ListFromSlot(table, i + 1)

\* list(a_set): the elements in the order of their slots
ListFromSet(table) == ListFromSlot(table, 0)

\* the elements of a set
Elements(table) == {table[i][1] : i \in {j \in 0 .. SetSlots - 1 : table[j] # None}}

\* VesselType.__init__, lines 73-86
VesselTypeInit(amnt, spd, rch, tools, drght, identifier) ==
    [class |-> "VesselType", identifier |-> identifier, amount |-> amnt, speed |-> spd,
     allowed_ports |-> {}, reach |-> rch, tools |-> tools, draught |-> drght]

\* Station.__init__, lines 142-154; a port of a vessel is named by its
\* identifier
StationInit(mwl, allowed, position, name, callsign, dpth, identifier) ==
    LET added == SetFromList(allowed)
    IN [class |-> "Station", identifier |-> identifier,
        allowed_vessels |->
           [i \in 0 .. SetSlots - 1 |->
               IF added[i] = None THEN None
               ELSE Some([added[i][1] EXCEPT !.allowed_ports = @ \cup {identifier}])],
        position |-> position, minimum_water_level |-> mwl, name |-> name,
        callsign |-> callsign, depth |-> dpth]

GpsPointInit(latitude, longitude) ==
    [class |-> "GpsPoint", latitude |-> latitude, longitude |-> longitude]

\* ExtendedJSONEncoder.default for a GpsPoint, line 265-266
DefaultGpsPoint(o) ==
    [__dtype__ |-> "GpsPoint", latitude |-> o.latitude, longitude |-> o.longitude]

\* ExtendedJSONEncoder.default for a VesselType, lines 267-270
DefaultVessel(o) ==
    [__dtype__ |-> "Vessel", amount |-> o.amount, speed |-> o.speed,
     identifier |-> o.identifier, reach |-> o.reach, tools |-> o.tools,
     draught |-> o.draught]

\* ExtendedJSONEncoder.default for a Station, lines 271-274, and the
\* encoding of what it returns
DefaultStation(o) ==
    LET l == ListFromSet(o.allowed_vessels)
    IN [__dtype__ |-> "Station", identifier |-> o.identifier,
        allowed_vessels |-> [k \in DOMAIN l |-> DefaultVessel(l[k])],
        position |-> DefaultGpsPoint(o.position), name |-> o.name,
        callsign |-> o.callsign, depth |-> o.depth,
        minimum_water_level |-> o.minimum_water_level]

\* ExtendedJSONEncoder.default for a tuple, lines 287-288: iterencode hands
\* tuples to default (tuple=_Dummy, line 332); the elements are numbers
DefaultTuple(o) == [__dtype__ |-> "tuple", value |-> o.tuple]

\* the (station identifier, vessel identifiers) pair of a share key
DefaultPair(o) ==
    [__dtype__ |-> "tuple", value |-> <<o.tuple[1], DefaultTuple(o.tuple[2])>>]

\* the key of a share: a tuple of pairs
DefaultKey(o) ==
    [__dtype__ |-> "tuple", value |-> [k \in DOMAIN o.tuple |-> DefaultPair(o.tuple[k])]]

\* json.dump(o, f, cls=ExtendedJSONEncoder) for a vessel type, a station or
\* a record of shares_dumpable
Dump(o) ==
    IF "class" \in DOMAIN o
    THEN IF o.class = "Station" THEN DefaultStation(o) ELSE DefaultVessel(o)
    ELSE [key |-> DefaultKey(o.key), value |-> o.value]

\* json_decoder_hook, lines 336-359, for the objects of the three files
json_decoder_hook(dct) ==
    IF "__dtype__" \in DOMAIN dct
    THEN CASE dct.__dtype__ = "Vessel" ->
                 VesselTypeInit(dct.amount, dct.speed, dct.reach, dct.tools, dct.draught,
                                dct.identifier)
           [] dct.__dtype__ = "Station" ->
                 StationInit(dct.minimum_water_level, dct.allowed_vessels, dct.position,
                             dct.name, dct.callsign, dct.depth, dct.identifier)
           [] dct.__dtype__ = "GpsPoint" -> GpsPointInit(dct.latitude, dct.longitude)
           [] dct.__dtype__ = "tuple" -> [tuple |-> dct.value]
    ELSE dct

\* json.load(f, object_hook=json_decoder_hook): the hook is called on the
\* innermost JSON objects first
LoadPair(j) ==
    json_decoder_hook([j EXCEPT !.value = <<@[1], json_decoder_hook(@[2])>>])

LoadKey(j) ==
    json_decoder_hook([j EXCEPT !.value = [k \in DOMAIN @ |-> LoadPair(@[k])]])

Load(j) ==
    IF "__dtype__" \in DOMAIN j
    THEN IF j.__dtype__ = "Station"
         THEN json_decoder_hook(
                  [j EXCEPT !.allowed_vessels = [k \in DOMAIN @ |-> json_decoder_hook(@[k])],
                            !.position = json_decoder_hook(@)])
         ELSE json_decoder_hook(j)
    ELSE json_decoder_hook([key |-> LoadKey(j.key), value |-> j.value])

\* the lists of up to two different vessel identifiers
VesselIdLists ==
    {<<>>} \cup {<<a>> : a \in JsonVesselIds}
           \cup {l \in JsonVesselIds \X JsonVesselIds : l[1] # l[2]}

\* a vessel type of the scenario
JsonVessel(identifier, ports, drght) ==
    [VesselTypeInit(IF identifier = 1 THEN 2 ELSE 1, Rat(10 * identifier, 1), UnknownReach,
                    [tow |-> 1], drght, identifier)
        EXCEPT !.allowed_ports = ports]

JsonVessels ==
    {JsonVessel(identifier, ports, drght) :
        identifier \in JsonVesselIds, ports \in SUBSET JsonStationIds,
        drght \in {None, Some(Rat(3, 2))}}

\* a station constructed from a list of vessel types that have no port yet
JsonStations ==
    {StationInit(mwl, [k \in DOMAIN l |-> JsonVessel(l[k], {}, None)],
                 GpsPointInit(Rat(107, 2), Rat(8, 1)), "Norderney", "DBAN", Rat(5, 2),
                 identifier) :
        mwl \in ProbValues, l \in VesselIdLists, identifier \in JsonStationIds}

\* line 127-128: the vessel identifiers of a pair are sorted and not empty
SortedVesselIds == {l \in VesselIdLists : l # <<>> /\ \A k \in 1 .. Len(l) - 1 : l[k] < l[k + 1]}

\* lines 133-138: the pairs of a key are sorted by station identifier
JsonKeys ==
    {[tuple |-> <<[tuple |-> <<1, [tuple |-> a]>>]>>] : a \in SortedVesselIds}
    \cup {[tuple |-> <<[tuple |-> <<1, [tuple |-> a]>>], [tuple |-> <<2, [tuple |-> b]>>]>>] :
             a \in SortedVesselIds, b \in SortedVesselIds}

\* the records of shares_dumpable, line 138
JsonShares == {[key |-> k, value |-> f] : k \in JsonKeys, f \in {Rat(1, 2), Rat(1, 1)}}

InitJson ==
    /\ PipeIdle
    /\ pc = "dump"
    /\ ret = None
    /\ error = None
    /\ obj \in JsonVessels \cup JsonStations \cup JsonShares
    /\ encoded = None
    /\ decoded = None
    /\ reencoded = None
    /\ reach = None
    /\ vessels = None
    /\ probability_by_zone = None
    /\ CalculationIdle
    /\ ModelIdle
    /\ zone_reachable_from_by = None
    /\ reach_todo = None
    /\ ClusterIdle
    /\ ClassIdle

\* lines 143-148: the object is written
JsonDump ==
    /\ pc = "dump"
    /\ encoded' = Dump(obj)
    /\ pc' = "load"
    /\ UNCHANGED <<ret, error, evalVars, tidalVars, modelVars, reachVars, clusterVars,
                   classVars, obj, decoded, reencoded, pipeVars>>

\* lines 166-173: the file is read
JsonLoad ==
    /\ pc = "load"
    /\ decoded' = Load(encoded)
    /\ pc' = "dump_again"
    /\ UNCHANGED <<ret, error, evalVars, tidalVars, modelVars, reachVars, clusterVars,
                   classVars, obj, encoded, reencoded, pipeVars>>

\* the object that was read is written again
JsonDumpAgain ==
    /\ pc = "dump_again"
    /\ reencoded' = Dump(decoded)
    /\ pc' = "done"
    /\ UNCHANGED <<ret, error, evalVars, tidalVars, modelVars, reachVars, clusterVars,
                   classVars, obj, encoded, decoded, pipeVars>>

NextJson == JsonDump \/ JsonLoad \/ JsonDumpAgain

SpecJson == InitJson /\ [][NextJson]_vars

IsObject(o) == "class" \in DOMAIN o

\* a vessel type or station with the identifier and the attribute values of
\* another one; the elements of allowed_vessels are compared as the set does
SameAttributes(a, b) ==
    /\ a.class = b.class
    /\ a.identifier = b.identifier
    /\ IF a.class = "Station"
       THEN /\ {v.identifier : v \in Elements(a.allowed_vessels)}
                  = {v.identifier : v \in Elements(b.allowed_vessels)}
            /\ a.position = b.position
            /\ a.minimum_water_level = b.minimum_water_level
            /\ a.name = b.name
            /\ a.callsign = b.callsign
            /\ a.depth = b.depth
       ELSE /\ a.amount = b.amount
            /\ a.speed = b.speed
            /\ a.allowed_ports = b.allowed_ports
            /\ a.reach = b.reach
            /\ a.tools = b.tools
            /\ a.draught = b.draught

\* C20: for every vessel type, station and joint-share record, decoding the
\* JSON of ExtendedJSONEncoder with json_decoder_hook yields an object equal
\* to the original with the same identifier and attribute values (for a
\* share record the same nested-tuple key and the same fraction), and
\* re-encoding the decoded object yields an equal encoding.
C20_RoundTrip ==
    pc = "done" =>
        /\ IsObject(obj) = IsObject(decoded)
        /\ IF IsObject(obj) THEN SameAttributes(decoded, obj) ELSE decoded = obj
        /\ reencoded = encoded

(***************************************************************************)
(* get_connected_data and its cache of artifacts                           *)
(* (generate_intervals.py lines 153-191)                                   *)
(***************************************************************************)
MaxCalls == 2       \* calls of get_connected_data for the water body

\* what a shares.json written by an earlier run can hold
PersistedShares ==
    {Fractions(<<[key |-> <<<<1, <<1, 2>>>>>>, count |-> 1]>>),
     Fractions(<<[key |-> <<<<1, <<1>>>>, <<2, <<1, 2>>>>>>, count |-> 1],
                 [key |-> <<<<2, <<2>>>>>>, count |-> 1]>>)}

\* the directory of the water body: the files in it and what shares.json holds
DiskStates ==
    {[files |-> F, shares |-> Some(c)] : F \in {G \in SUBSET Artifacts : "shares.json" \in G},
                                         c \in PersistedShares}
    \cup {[files |-> F, shares |-> None] : F \in {G \in SUBSET Artifacts : "shares.json" \notin G}}

\* a bug that looks for shares.json only
CacheMissSharesOnly(files) == "shares.json" \notin files

\* lines 159-161: not (all three files exist)
CacheMiss(files) == ~(Artifacts \subseteq files)

InitConnected ==
    /\ pc = "get_connected_data"
    /\ ret = None
    /\ error = None
    /\ EvalIdle
    /\ ModelIdle
    /\ zone_reachable_from_by = None
    /\ reach_todo = None
    /\ ClusterIdle
    /\ ClassIdle
    /\ JsonIdle
    /\ disk \in DiskStates
    /\ calls = 1
    /\ RefineIdle
    /\ HouseIdle
    /\ lines = 0
    /\ current_level = [l \in Levels |-> None]
    /\ last_row = None
    /\ timestamps = 0
    /\ share_counts = <<>>
    /\ share_list = None
    /\ written = {}
    /\ amount \in [Vessels -> 1..MaxAmount]
    /\ consolidated = None
    /\ minimum_water_level = [s \in Stations |-> Zero]
    /\ vessels = Vessels

\* lines 159-165: generate_intervals is entered, or the files are to be read
CacheLookup ==
    /\ pc = "get_connected_data"
    /\ pc' = IF CacheMiss(disk.files) THEN "scan" ELSE "read"
    /\ UNCHANGED <<ret, error, evalVars, tidalVars, modelVars, dataVars>>

\* lines 166-174: open() raises when the file is not there
ReadCached ==
    /\ pc = "read"
    /\ IF Artifacts \subseteq disk.files
       THEN /\ share_list' = disk.shares[1]
            /\ pc' = "loaded"
            /\ UNCHANGED error
       ELSE /\ error' = Some("FileNotFoundError")
            /\ pc' = "raised"
            /\ UNCHANGED share_list
    /\ UNCHANGED <<ret, evalVars, lines, current_level, last_row, timestamps, share_counts,
                   written, amount, consolidated, minimum_water_level, vessels,
                   modelVars, dataVars>>

\* lines 177-191: the keys become frozensets of objects and the shares are
\* returned
ConnectedReturn ==
    /\ pc \in {"generated", "loaded"}
    /\ ret' = Some(ConnectedShares(share_list))
    /\ pc' = "done"
    /\ UNCHANGED <<error, evalVars, tidalVars, modelVars, dataVars>>

\* a later run calls get_connected_data for the same water body
CallAgain ==
    /\ pc = "done"
    /\ calls < MaxCalls
    /\ calls' = calls + 1
    /\ disk' = [files |-> disk.files \cup written,
                shares |-> IF "shares.json" \in written THEN Some(share_list)
                           ELSE disk.shares]
    /\ pc' = "get_connected_data"
    /\ ret' = None
    /\ lines' = 0
    /\ current_level' = [l \in Levels |-> None]
    /\ last_row' = None
    /\ timestamps' = 0
    /\ share_counts' = <<>>
    /\ share_list' = None
    /\ written' = {}
    /\ UNCHANGED <<error, evalVars, amount, consolidated, minimum_water_level, vessels,
                   modelVars, reachVars, clusterVars, classVars, jsonVars, refineVars,
                   houseVars>>

NextConnected ==
    CacheLookup \/ GenRow \/ GenEOF \/ GenFinish \/ ReadCached \/ ConnectedReturn \/ CallAgain

SpecConnected == InitConnected /\ [][NextConnected]_vars

\* generate_intervals has been entered in this call
Recomputing == pc \in {"scan", "post", "generated"} \/ lines > 0 \/ written # {}

C21_WitnessCached ==
    /\ calls = 1
    /\ pc = "done"
    /\ lines = 0
    /\ written = {}
    /\ ret # None

(***************************************************************************)
(* The Better-tidal model over a refined set of thresholds                 *)
(* (gurobi_better_tidal.py lines 33-75, with a value more in the set of    *)
(* line 33)                                                                *)
(***************************************************************************)
\* the thresholds that can be inserted
ExtraThresholds == {Rat(1, 4), Rat(3, 4)}

\* lines 33-34 with the set `more` united to {0, 1}
WaterlevelsWith(more) ==
    Pairwise(SortedRats({consolidated[p] : p \in DOMAIN consolidated} \cup {Zero, One} \cup more))

\* a bug that weighs an interval by its upper bound
TimeShareUpper(waterlevel) == waterlevel[2]

\* line 51: waterlevel[1] - waterlevel[0]
TimeShare(waterlevel) == RatSub(waterlevel[2], waterlevel[1])

\* lines 41-55 over the waterlevels wls
YBetterTidalOver(wls) ==
    LET keys == {t \in Stations \X (0..(Len(wls) - 1)) \X vessels \X Zones \X Incidents :
                    /\ <<t[1], t[3]>> \in opened_by_waterlevel(wls[t[2] + 1])
                    /\ SharedConditions(t[1], t[3], t[4], t[5])}
    IN [t \in keys |->
          RatMul(BaseCoefficient(t[1], t[3], t[4], t[5]), TimeShare(wls[t[2] + 1]))]

\* lines 59-73 for the y variables yk and the waterlevels wls
BetterTidalConstrs(yk, wls) ==
    {vessel_assignment_1(v) : v \in vessels}
    \cup {vessel_assignment_2(s) : s \in Stations}
    \cup {vessel_assigned_if_used(yk, p[1], p[2]) :
             p \in {q \in Stations \X Vessels : q[2] \in station_allowed_vessels[q[1]]}}
    \cup {incident_covered(yk, t[1], t[2], t[3]) :
             t \in {u \in (0..(Len(wls) - 1)) \X Zones \X Incidents :
                       RatLess(Zero, ProbGet(u[3], u[2]))}}

\* model.ObjVal at a proven optimum of the model over wls, Inf when the
\* model is infeasible
OptimalObjective(wls) ==
    LET yv == YBetterTidalOver(wls)
        xk == {k \in vessels \X Stations : k[2] \in allowed_ports[k[1]]}
        sols == Solutions(xk, DOMAIN yv, BetterTidalConstrs(DOMAIN yv, wls))
    IN MinOver({RatSum(yv, sol.y) : sol \in sols}, Inf)

\* the scenarios of InitModel, handed to the Better-tidal model
InitRefine ==
    /\ InitModel
    /\ solver = "GUROBI_BETTER_TIDAL"
    /\ \A st \in Stations : station_allowed_vessels[st] \subseteq vessels

\* the model of the code is built and solved to optimality
SolveCoarse ==
    /\ pc = "create"
    /\ coarse_objective' = OptimalObjective(WaterlevelsWith({}))
    /\ pc' = "refine"
    /\ UNCHANGED <<ret, error, evalVars, tidalVars, modelVars, reachVars, clusterVars,
                   classVars, jsonVars, cacheVars, houseVars, extra, refined_objective>>

\* a threshold that is none yet is inserted, and the model is built and
\* solved to optimality again
SolveRefined ==
    /\ pc = "refine"
    /\ \E t \in ExtraThresholds \ {consolidated[p] : p \in DOMAIN consolidated} :
          /\ extra' = t
          /\ refined_objective' = OptimalObjective(WaterlevelsWith({t}))
    /\ pc' = "done"
    /\ UNCHANGED <<ret, error, evalVars, tidalVars, modelVars, reachVars, clusterVars,
                   classVars, jsonVars, cacheVars, houseVars, coarse_objective>>

NextRefine == SolveCoarse \/ SolveRefined

SpecRefine == InitRefine /\ [][NextRefine]_vars

\* C22: for the Better-tidal variant, inserting an additional interval into
\* the set of waterlevel thresholds never increases the optimal objective
\* value, for the same vessels, stations, zones, incidents and consolidated
\* values.
C22_RefinementNeverIncreases ==
    pc = "done" => RatLeq(refined_objective, coarse_objective)

\* the property does not hold by both models being infeasible: a threshold
\* was inserted between two thresholds of a scenario whose optimum is
\* positive and finite
C22_Witness ==
    /\ pc = "done"
    /\ coarse_objective # Inf
    /\ RatLess(Zero, coarse_objective)
    /\ Len(WaterlevelsWith({extra})) = Len(WaterlevelsWith({})) + 1
    /\ Len(WaterlevelsWith({})) > 1

(***************************************************************************)
(* DataHouse.random_allowed_vessels_to_stations (DataHouse.py lines 82-98) *)
(* on what fill_in stored (lines 73-80)                                    *)
(***************************************************************************)
\* what consolidate_intervals returns as vessels (generate_intervals.py
\* lines 208-229): the loaded list when there is no share, else the
\* frozenset the loop of line 208 ended with
VesselTypesReturned ==
    {[type |-> "list", items |-> Vessels]}
    \cup {[type |-> "frozenset", items |-> F] : F \in FittingSets \ {{}}}

\* the consolidated shares stored in DataHouse.shares: none with the list,
\* else an entry at least for the pairs of a station with the frozenset
SharesStored(vt) ==
    IF vt.type = "list" THEN {<<>>}
    ELSE {[p \in D |-> Rat(1, 2)] :
             D \in {E \in SUBSET (Stations \X Vessels) :
                       \E st \in Stations : \A v \in vt.items : <<st, v>> \in E}}

\* self.vessel_types[0], line 95: a frozenset has no subscript
FirstVesselType(vt) ==
    IF vt.type = "list" THEN Some(SortedSeq(vt.items)[1]) ELSE None

InitAllow ==
    /\ pc = "random_allowed_vessels_to_stations"
    /\ ret = None
    /\ error = None
    /\ vessel_types \in VesselTypesReturned
    /\ compare_lookups = None
    /\ fixed_objective = None
    /\ consolidated \in SharesStored(vessel_types)
    /\ station_allowed_vessels = [st \in Stations |-> {}]
    /\ allowed_ports = [v \in Vessels |-> {}]
    /\ EvalIdle
    /\ lines = None
    /\ current_level = None
    /\ last_row = None
    /\ timestamps = None
    /\ share_counts = None
    /\ share_list = None
    /\ written = None
    /\ amount = None
    /\ minimum_water_level = None
    /\ vessels = None
    /\ solver = None
    /\ xvars = None
    /\ yvars = None
    /\ constrs = None
    /\ status = None
    /\ solution = None
    /\ zone_reachable_from_by = None
    /\ reach_todo = None
    /\ ClusterIdle
    /\ ClassIdle
    /\ JsonIdle
    /\ CacheIdle
    /\ RefineIdle

\* lines 83-89: the draws and the calls of add_allowed_vessel
AllowDraw ==
    /\ pc = "random_allowed_vessels_to_stations"
    /\ \E values \in [Stations -> SUBSET vessel_types.items] :
          /\ station_allowed_vessels' = values
          /\ allowed_ports' = [v \in Vessels |-> {st \in Stations : v \in values[st]}]
    /\ pc' = "validate"
    /\ UNCHANGED <<ret, error, evalVars, tidalVars, solver, xvars, yvars, constrs, status,
                   solution, dataVars>>

\* lines 92-95: a station without allowed vessel gets the first vessel type
AllowValidate ==
    /\ pc = "validate"
    /\ LET none == {st \in Stations : station_allowed_vessels[st] = {}}
           first == FirstVesselType(vessel_types)
       IN IF none = {}
          THEN /\ pc' = "filter"
               /\ UNCHANGED <<error, station_allowed_vessels, allowed_ports>>
          ELSE IF first = None
          THEN /\ pc' = "raised"
               /\ error' = Some("TypeError")
               /\ UNCHANGED <<station_allowed_vessels, allowed_ports>>
          ELSE /\ station_allowed_vessels' =
                     [st \in Stations |->
                         IF st \in none THEN {first[1]} ELSE station_allowed_vessels[st]]
               /\ allowed_ports' =
                     [allowed_ports EXCEPT ![first[1]] = @ \cup none]
               /\ pc' = "filter"
               /\ UNCHANGED error
    /\ UNCHANGED <<ret, evalVars, tidalVars, solver, xvars, yvars, constrs, status,
                   solution, dataVars>>

\* line 98: the shares of pairs that are not allowed are removed
AllowFilter ==
    /\ pc = "filter"
    /\ consolidated' =
          [p \in {q \in DOMAIN consolidated : q[1] \in allowed_ports[q[2]]} |-> consolidated[p]]
    /\ pc' = "done"
    /\ UNCHANGED <<ret, error, evalVars, lines, current_level, last_row, timestamps,
                   share_counts, share_list, written, amount, minimum_water_level,
                   vessels, modelVars, dataVars>>

NextAllow == AllowDraw \/ AllowValidate \/ AllowFilter

SpecAllow == InitAllow /\ [][NextAllow]_vars

\* C23: after random_allowed_vessels_to_stations every station has at least
\* one allowed vessel type: a station that drew none is given the first
\* vessel type of the scenario instead of stopping the pipeline.
C23_EveryStationAllowed ==
    /\ pc \in {"filter", "done"} => \A st \in Stations : station_allowed_vessels[st] # {}
    /\ pc # "raised"

\* with the vessel types in a list the repair works
C23_ListRepaired ==
    vessel_types.type = "list" => C23_EveryStationAllowed

(***************************************************************************)
(* The water level of a station at a timestamp (lines 72-80, 111-124)      *)
(***************************************************************************)
\* the gauges with a reading in the row
WithReading(row) == {l \in Levels : row[l] # None}

\* U holds the nearest gauges with a reading, three of them at most
NearestWithReading(s, row, U) ==
    /\ U \subseteq WithReading(row)
    /\ Cardinality(U) = IF Cardinality(WithReading(row)) < 3
                        THEN Cardinality(WithReading(row)) ELSE 3
    /\ \A l \in U : \A m \in WithReading(row) \ U :
          level_distance(s, l) <= level_distance(s, m)

\* the row just read stopped the scan at the division of line 123
DivisionRaised == pc = "raised" /\ error = Some("ZeroDivisionError")

\* C24: at each timestamp, for every station with between one and three
\* gauges holding a reading, the gauges used are the nearest ones with a
\* reading (three at most) and the water level is defined: the division of
\* the weighted sum of the readings by the sum of the weights D - d_g
\* succeeds.
C24_WaterLevelDefined ==
    last_row # None =>
        \A s \in Stations :
            WithReading(last_row[1]) # {} =>
                /\ NearestWithReading(s, last_row[1], UsedLevels(s, last_row[1]))
                /\ Divisor(s, UsedLevels(s, last_row[1])) # 0
                /\ ~DivisionRaised

\* with two or three gauges holding a reading the water level is defined
\* and is the weighted average of the nearest gauges
C24_DefinedFromTwoGauges ==
    last_row # None =>
        \A s \in Stations :
            Cardinality(WithReading(last_row[1])) >= 2 =>
                /\ NearestWithReading(s, last_row[1], UsedLevels(s, last_row[1]))
                /\ Divisor(s, UsedLevels(s, last_row[1])) > 0
                /\ ~DivisionRaised

\* a single gauge with a reading always ends the scan at line 123
C24_SingleGaugeRaises ==
    last_row # None /\ Cardinality(WithReading(last_row[1])) = 1 => DivisionRaised

(***************************************************************************)
(* The combination recorded for a timestamp (lines 110-133)                *)
(***************************************************************************)
\* the station's water level above its depth, in cm, when gauges are used
Clearance(s, row) == WaterLevel(s, row)

\* the pair is open: the clearance is strictly above the draught
PairOpen(s, v, row) ==
    /\ UsedLevels(s, row) # {}
    /\ RatLess(Rat(draught[v] * 100, 1), Clearance(s, row))

\* the key lists exactly the open pairs, stations and vessels in
\* increasing order of identifier
CanonicalKey(key, row) ==
    /\ {key[i][1] : i \in DOMAIN key} =
          {s \in Stations : \E v \in Vessels : PairOpen(s, v, row)}
    /\ \A i \in DOMAIN key :
          /\ {key[i][2][j] : j \in DOMAIN key[i][2]} =
                {v \in Vessels : PairOpen(key[i][1], v, row)}
          /\ \A j, k \in DOMAIN key[i][2] : j < k => key[i][2][j] < key[i][2][k]
    /\ \A i, j \in DOMAIN key : i < j => key[i][1] < key[j][1]

\* the number of timestamps counted under the key
CountOf(counts, key) ==
    IntSum([i \in DOMAIN counts |-> IF counts[i].key = key THEN counts[i].count ELSE 0],
           DOMAIN counts)

\* a row was read and counted
RowCounted == pc = "scan" /\ pc' = "scan" /\ lines' = lines + 1

\* C25: at each timestamp counted a (station, vessel type) pair is recorded
\* as open iff the water level minus the station's depth is strictly above
\* the vessel's draught; the combination lists exactly the stations with an
\* open vessel type, each with exactly its open vessel identifiers, in the
\* order of the identifiers, so the same accessibility is counted under the
\* same key.
C25_CombinationRecorded ==
    [][RowCounted =>
          \E i \in DOMAIN share_counts' :
              /\ CanonicalKey(share_counts'[i].key, last_row'[1])
              /\ share_counts'[i].count = CountOf(share_counts, share_counts'[i].key) + 1
              /\ \A j \in DOMAIN share_counts' :
                    /\ j # i => share_counts'[j].key # share_counts'[i].key
                    /\ j # i => share_counts'[j].count = CountOf(share_counts, share_counts'[j].key)
                    /\ j # i => replace_ids_with_objects(share_counts'[j].key)
                                   # replace_ids_with_objects(share_counts'[i].key)]_vars

\* a vessel whose draught equals the clearance stayed out of the key of a
\* row that was counted a second time
C25_Witness ==
    /\ pc = "scan"
    /\ last_row # None
    /\ \E s \in Stations : \E v \in Vessels :
          /\ UsedLevels(s, last_row[1]) # {}
          /\ Clearance(s, last_row[1]) = Rat(draught[v] * 100, 1)
          /\ \E i \in DOMAIN share_counts :
                /\ share_counts[i].count = 2
                /\ CanonicalKey(share_counts[i].key, last_row[1])
                /\ \E j \in DOMAIN share_counts[i].key : share_counts[i].key[j][1] = s

(***************************************************************************)
(* The availability states of the many-zones and the better-tidal model    *)
(* (gurobi_more_zones.py lines 33-36, gurobi_better_tidal.py lines 33-34)  *)
(***************************************************************************)
\* wls are the adjacent intervals between the consecutive values of
\* thresholds and 0 and 1: pairwise disjoint, covering [0, 1], of lengths
\* that sum to 1
PartitionOfUnit(wls, thresholds) ==
    /\ Len(wls) >= 1
    /\ wls[1][1] = Zero
    /\ wls[Len(wls)][2] = One
    /\ \A k \in DOMAIN wls : RatLess(wls[k][1], wls[k][2])
    /\ \A k \in 1..(Len(wls) - 1) : wls[k][2] = wls[k + 1][1]
    /\ \A j, k \in DOMAIN wls : j < k => RatLeq(wls[j][2], wls[k][1])
    /\ {wls[k][1] : k \in DOMAIN wls} \cup {One} = thresholds \cup {Zero, One}
    /\ Len(wls) + 1 = Cardinality(thresholds \cup {Zero, One})
    /\ RatSum([k \in DOMAIN wls |-> RatSub(wls[k][2], wls[k][1])], DOMAIN wls) = One

\* C26: the availability states are the adjacent intervals between the
\* consecutive values of the sorted distinct thresholds and 0 and 1; with
\* the thresholds in [0, 1] they are pairwise disjoint, cover [0, 1] and
\* their lengths sum to 1.
C26_AvailabilityStates ==
    /\ PartitionOfUnit(WaterlevelsManyZones, {minimum_water_level[s] : s \in Stations})
    /\ PartitionOfUnit(WaterlevelsBetterTidal,
                       {consolidated[p] : p \in DOMAIN consolidated})
    /\ pc = "done" =>
          PartitionOfUnit(WaterlevelsWith({extra}),
                          {consolidated[p] : p \in DOMAIN consolidated} \cup {extra})

\* both models were built over three availability states
C26_Witness ==
    /\ pc = "done"
    /\ Len(WaterlevelsManyZones) = 3
    /\ Len(WaterlevelsWith({extra})) = 3
    /\ Len(WaterlevelsBetterTidal) = 2

(***************************************************************************)
(* The vessel types consolidate_intervals returns (lines 203-229)          *)
(***************************************************************************)
\* C27: consolidate_intervals returns the complete collection of vessel
\* types as loaded by get_connected_data, whatever the joint share
\* distribution holds, and computes the total fleet size over it.
C27_AllVesselTypesReturned ==
    pc = "done" =>
        /\ ret[1][3] = Vessels
        /\ vessels = Vessels

\* without a share the loaded list is returned
C27_LoadedListWithoutShares ==
    pc = "done" /\ share_list = <<>> => ret[1][3] = Vessels /\ vessels = Vessels

\* with shares the vessel set of a pair of the last combination is returned
C27_LastPairReturned ==
    pc = "done" /\ share_list # <<>> =>
        \E p \in replace_ids_with_objects(share_list[Len(share_list)].key) :
            ret[1][3] = p[2] /\ vessels = p[2]

(***************************************************************************)
(* test (test.py lines 36-97): cluster_zones, optimize, the assignment and *)
(* the comparison objective                                                *)
(***************************************************************************)
\* Zone.position of the loaded zones (see Centre)
ZonePosition(z) == IF z = 1 THEN 10 ELSE 30

\* Zone.__eq__ and __hash__ (Classes.py lines 197-202) between a zone of
\* cluster_zones and a loaded zone: the same position, width 0, height 0
SameZone(idx, z) == Centre(origin_zones[idx]) = ZonePosition(z)

\* incident.probability_by_zone.get(zone, 0) for a loaded zone after
\* cluster_zones replaced the maps: the value if a key equals the zone
ProbLookup(i, z) ==
    LET keys == {idx \in DOMAIN probability_by_zone[i] : SameZone(idx, z)}
    IN IF keys = {} THEN None
       ELSE Some(probability_by_zone[i][CHOOSE idx \in keys : TRUE])

\* lines 49-94: optimize on dh.zones_clustered and the assignment read from
\* the x variables of the solution at hand
RunOptimize ==
    /\ pc = "done"
    /\ assignment' \in {a \in Assignments : \A st \in DOMAIN a : a[st] \in vessels}
    /\ pc' = "optimized"
    /\ UNCHANGED <<ret, error, shares, allowed_vessels, probability_by_zone, reach, todo,
                   val, unfullfilled, unfilled_number, unfullfilled_weight, used,
                   tidalVars, modelVars, dataVars>>

\* line 97 with calculate_comp_val.py line 38: calculate_obj_value is given
\* dh.zones, the loaded zones, and looks each of them up in the maps
CompareValue ==
    /\ pc = "optimized"
    /\ compare_lookups' = [i \in Incidents |-> [z \in Zones |-> ProbLookup(i, z)]]
    /\ pc' = "compared"
    /\ UNCHANGED <<ret, error, evalVars, tidalVars, modelVars, reachVars, clusterVars,
                   classVars, jsonVars, cacheVars, refineVars, vessel_types,
                   fixed_objective>>

NextRun == KMeansFit \/ NewZone \/ ClusterAssign \/ RunOptimize \/ CompareValue

SpecRun == InitCluster /\ [][NextRun]_vars

\* C28: when test computes the comparison objective, every incident type's
\* probability map has an entry for every zone of the zone set passed to
\* calculate_obj_value; after cluster_zones replaced the maps the evaluator
\* is not run on zones the maps hold no entry for.
C28_MapsCoverZonesPassed ==
    pc = "compared" =>
        \A i \in Incidents : \A z \in Zones : compare_lookups[i][z] # None

\* reduced to fewer zones than loaded, a loaded zone is missing from the maps
C28_ReducedLosesZones ==
    pc = "compared" /\ final_amount < Cardinality(Zones) =>
        \A i \in Incidents : \E z \in Zones : compare_lookups[i][z] = None

\* with as many clusters as zones every centre is a loaded zone and the
\* maps cover the zones passed
C28_CoveredWhenNotReduced ==
    pc = "compared" /\ final_amount = Cardinality(Zones) =>
        \A i \in Incidents : \A z \in Zones : compare_lookups[i][z] # None

(***************************************************************************)
(* The pairs eligible for y variables, interval by interval                *)
(* (gurobi_more_zones.py lines 33-42, gurobi_better_tidal.py lines 33-47)  *)
(***************************************************************************)
\* the lower bound of the interval a y key names
LowerBound(t) ==
    IF solver = "GUROBI_BETTER_TIDAL" THEN WaterlevelsBetterTidal[t[2] + 1][1] ELSE t[2]

\* the threshold of the station, respectively of the pair, of a y key
ThresholdOf(t) ==
    IF solver = "GUROBI_BETTER_TIDAL" THEN consolidated[<<t[1], t[3]>>]
    ELSE minimum_water_level[t[1]]

\* C29: in the many-zones and the better-tidal model the pairs eligible for
\* y variables grow with the interval: a pair with a y variable in an
\* interval has one, for the same zone and incident, in every interval with
\* a larger lower bound; in the first interval, of lower bound 0, only
\* stations, respectively pairs, of threshold exactly 0 have y variables.
C29_EligibilityMonotone ==
    solver \in {"GUROBI_MANY_ZONES", "GUROBI_BETTER_TIDAL"}
    /\ pc \in {"optimize", "solved", "extracted"} =>
        \A t \in DOMAIN yvars :
            /\ \A k \in ModelStates :
                  LET u == <<t[1], k, t[3], t[4], t[5]>>
                  IN RatLess(LowerBound(t), LowerBound(u)) => u \in DOMAIN yvars
            /\ LowerBound(t) = Zero => ThresholdOf(t) = Zero

\* a many-zones model of three intervals in which a station is eligible
\* from the second interval on, in the second and in the third
C29_WitnessThreeIntervals ==
    /\ solver = "GUROBI_MANY_ZONES"
    /\ pc = "optimize"
    /\ Len(WaterlevelsManyZones) = 3
    /\ \E t \in DOMAIN yvars :
          /\ RatLess(Zero, ThresholdOf(t))
          /\ RatLess(ThresholdOf(t), LowerBound(t))
          /\ <<t[1], ThresholdOf(t), t[3], t[4], t[5]>> \in DOMAIN yvars
          /\ <<t[1], Zero, t[3], t[4], t[5]>> \notin DOMAIN yvars

\* a many-zones model in which a station is eligible from the first
\* interval on and another from the second interval on
C29_WitnessManyZones ==
    /\ solver = "GUROBI_MANY_ZONES"
    /\ pc = "optimize"
    /\ Len(WaterlevelsManyZones) = 2
    /\ \E t \in DOMAIN yvars : LowerBound(t) = Zero
    /\ \E t \in DOMAIN yvars :
          /\ RatLess(Zero, ThresholdOf(t))
          /\ <<t[1], Zero, t[3], t[4], t[5]>> \notin DOMAIN yvars

\* the same for the better-tidal model over its two intervals
C29_Witness ==
    /\ solver = "GUROBI_BETTER_TIDAL"
    /\ pc = "optimize"
    /\ Len(WaterlevelsBetterTidal) = 2
    /\ \E t \in DOMAIN yvars : LowerBound(t) = Zero
    /\ \E t \in DOMAIN yvars :
          /\ <<t[1], 1, t[3], t[4], t[5]>> \in DOMAIN yvars
          /\ <<t[1], 0, t[3], t[4], t[5]>> \in DOMAIN yvars
    /\ \E t \in DOMAIN yvars :
          /\ RatLess(Zero, ThresholdOf(t))
          /\ <<t[1], 0, t[3], t[4], t[5]>> \notin DOMAIN yvars

(***************************************************************************)
(* The best-tidal model with the x variables fixed, against the value      *)
(* calculate_obj_value returns for the assignment the x variables encode   *)
(* (gurobi_best_tidal.py lines 32-67, test.py lines 84-97,                 *)
(* calculate_comp_val.py lines 31-71)                                      *)
(***************************************************************************)
\* the x vectors that satisfy vessel_assignment_1 and vessel_assignment_2
AssignmentVectors ==
    {xs \in SUBSET xvars :
        Feasible({c \in constrs : c.lhs_y = {} /\ c.rhs_x = {}}, xs, {})}

\* the feasible solutions of the model with the x variables fixed to xs
FixedSolutions(xs) ==
    {sol \in Solutions(xvars, DOMAIN yvars, constrs) : sol.x = xs}

\* model.ObjVal after optimize with x fixed; infinite when infeasible
FixedOptimum(xs) ==
    MinOver({ObjVal(sol) : sol \in FixedSolutions(xs)}, Inf)

\* test.py lines 84-88: the assignment the x variables at 1 encode
AssignmentOf(xs) ==
    [st \in {k[2] : k \in xs} |-> CHOOSE v \in Vessels : <<v, st>> \in xs]

InitCompare == InitModel /\ solver = "GUROBI_BEST_TIDAL"

\* the model is solved with x fixed, and calculate_obj_value starts on the
\* assignment and the joint shares (calculate_comp_val.py lines 31-36)
SolveFixed ==
    /\ pc = "optimize"
    /\ \E xs \in AssignmentVectors :
          /\ fixed_objective' = FixedOptimum(xs)
          /\ assignment' = AssignmentOf(xs)
    /\ todo' = shares
    /\ val' = Zero
    /\ unfullfilled' = Zero
    /\ unfilled_number' = 0
    /\ unfullfilled_weight' = Zero
    /\ used' = {}
    /\ pc' = "loop"
    /\ UNCHANGED <<ret, error, shares, allowed_vessels, probability_by_zone, reach,
                   tidalVars, modelVars, reachVars, clusterVars, classVars, jsonVars,
                   cacheVars, refineVars, vessel_types, compare_lookups>>

NextCompare == CreateModel \/ SolveFixed \/ EvalShare \/ EvalReturn

SpecCompare == InitCompare /\ [][NextCompare]_vars

\* the value calculate_obj_value returns without the breakdown flag
ReturnedValue == IF Len(ret[1]) = 1 THEN ret[1][1]
                 ELSE IF RatLess(Zero, ret[1][2]) THEN Inf ELSE ret[1][1]

\* C30: for an assignment x that satisfies the fleet cap and the
\* one-vessel-per-station constraints, the minimum best-tidal objective over
\* the y variables with x fixed equals the value calculate_obj_value returns
\* for the assignment, and the model with x fixed is infeasible exactly when
\* calculate_obj_value reports unfulfilled triples.
C30_FixedModelEqualsEvaluator ==
    pc = "done" =>
        /\ fixed_objective = ReturnedValue
        /\ fixed_objective = Inf <=> unfilled_number > 0

\* every assigned vessel is in the vessel set of its station in every share
\* that lists the station
AssignedWithinShares ==
    \A sh \in shares : \A p \in sh.key :
        p[1] \in DOMAIN assignment => assignment[p[1]] \in p[2]

\* with the assigned vessels usable in every share the two values agree
C30_EqualWhenUsable ==
    pc = "done" /\ AssignedWithinShares => C30_FixedModelEqualsEvaluator

\* the evaluator never returns more than the model with x fixed
C30_EvaluatorAtMostModel ==
    pc = "done" => RatLeq(ReturnedValue, fixed_objective)

====
